---------------------------- MODULE Spec2Model ----------------------------
(***************************************************************************)
(* A model of the device-protocol core of picokeys-config-gui:             *)
(*   - the ISO 7816 APDU codec (hsm/apdu.rs),                              *)
(*   - the HSM command layer and its card transport (hsm/mod.rs),          *)
(*   - the device manager (device_manager.rs).                             *)
(* Bytes are the integers 0..255.  Option<T> is a sequence of length 0     *)
(* (None) or 1 (Some).  Strings whose content matters are sequences of     *)
(* characters; a character is a record with its UTF-8 width.               *)
(***************************************************************************)
EXTENDS Integers, Sequences, FiniteSets, TLC

VARIABLES
    cx,           \* the codec call under examination (pure functions)
    th,           \* HSM command layer: per-thread state of the running operation
    device_path,  \* HsmModuleImpl.device_path (the Mutex<String> cell)
    token_options, \* the dynamic options the HSM token holds (environment)
    dm,           \* device manager: per-thread state of open/close calls
    opened,       \* DeviceManagerImpl.opened_devices
    lockHolder,   \* owner of the opened_devices mutex (0 = free)
    plugged,      \* the devices physically present (environment)
    mon,          \* the hot-plug polling thread of start_device_polling
    fi,           \* FIDO command layer: the operation called last and its outcome
    fido_device_path  \* FidoModuleImpl.device_path (the Mutex<String> cell)

codecVars == <<cx>>
hsmVars   == <<th, device_path, token_options>>
devVars   == <<dm, opened, lockHolder, plugged, mon>>
fidoVars  == <<fi, fido_device_path>>
vars      == <<cx, th, device_path, token_options, dm, opened, lockHolder,
               plugged, mon, fi, fido_device_path>>

---------------------------------------------------------------------------
(* Basic types *)

Byte == 0..255

None == <<>>
Some(x) == <<x>>
IsSome(o) == Len(o) = 1
Unwrap(o) == o[1]

\* `x as u8` and `x as u16`
AsU8(n) == n % 256
AsU16(n) == n % 65536

\* n copies of x
Repeat(x, n) == [i \in 1..n |-> x]

\* the first n elements of s, and s without its first n elements
Take(s, n) == SubSeq(s, 1, n)
Drop(s, n) == SubSeq(s, n + 1, Len(s))

---------------------------------------------------------------------------
(* Error values (error.rs): every error is [kind, a, b, msg] *)

Err(kind, a, b, msg) == [kind |-> kind, a |-> a, b |-> b, msg |-> msg]
NoError == Err("none", 0, 0, "")
StatusError(sw1, sw2) == Err("StatusError", sw1, sw2, "")
PinInvalid(retries) == Err("PinInvalid", retries, 0, "")
PinLocked == Err("PinLocked", 0, 0, "")
SoPinInvalid == Err("SoPinInvalid", 0, 0, "")
PinFormatInvalid == Err("PinFormatInvalid", 0, 0, "")
SoPinFormatInvalid == Err("SoPinFormatInvalid", 0, 0, "")
KeyNotFound(id) == Err("KeyNotFound", id, 0, "")
CertificateNotFound(id) == Err("CertificateNotFound", id, 0, "")
NotSupported == Err("NotSupported", 0, 0, "")
CommunicationError(msg) == Err("CommunicationError", 0, 0, msg)
IncompleteResponse(n) == Err("IncompleteResponse", n, 0, "")

---------------------------------------------------------------------------
(* APDU codec (hsm/apdu.rs) *)

ApduCommand(cla, ins, p1, p2, data, le) ==
    [cla |-> cla, ins |-> ins, p1 |-> p1, p2 |-> p2, data |-> data, le |-> le]

\* a variant whose data threshold is off by one
needs_extended_above_256(cmd) ==
    LET data_len == IF IsSome(cmd.data) THEN Len(Unwrap(cmd.data)) ELSE 0
        le == IF IsSome(cmd.le) THEN Unwrap(cmd.le) ELSE 0
    IN  data_len > 256 \/ le > 256

needs_extended(cmd) ==
    LET data_len == IF IsSome(cmd.data) THEN Len(Unwrap(cmd.data)) ELSE 0
        le == IF IsSome(cmd.le) THEN Unwrap(cmd.le) ELSE 0
    IN  data_len > 255 \/ le > 256

encode_extended(cmd, has_data, has_le) ==
    LET buf == <<cmd.cla, cmd.ins, cmd.p1, cmd.p2>>
    IN  CASE ~has_data /\ has_le ->
               LET le == Unwrap(cmd.le)
               IN  buf \o <<0, AsU8(le \div 256), AsU8(le % 256)>>
          [] has_data /\ ~has_le ->
               LET data == Unwrap(cmd.data)
                   lc == AsU16(Len(data))
               IN  buf \o <<0, AsU8(lc \div 256), AsU8(lc % 256)>> \o data
          [] has_data /\ has_le ->
               LET data == Unwrap(cmd.data)
                   lc == AsU16(Len(data))
                   le == Unwrap(cmd.le)
               IN  buf \o <<0, AsU8(lc \div 256), AsU8(lc % 256)>> \o data
                       \o <<AsU8(le \div 256), AsU8(le % 256)>>
          [] OTHER -> buf

\* a variant whose sentinel threshold is off by one
ShortLeByteFrom255(le) == IF le >= 255 THEN 0 ELSE AsU8(le)

\* the Le byte of the short form: `if le >= 256 { 0x00 } else { le as u8 }`
ShortLeByte(le) == IF le >= 256 THEN 0 ELSE AsU8(le)

encode_apdu(cmd) ==
    LET has_data == IsSome(cmd.data) /\ Unwrap(cmd.data) # <<>>
        has_le == IsSome(cmd.le)
        buf == <<cmd.cla, cmd.ins, cmd.p1, cmd.p2>>
    IN  IF needs_extended(cmd) THEN encode_extended(cmd, has_data, has_le)
        ELSE CASE ~has_data /\ ~has_le -> buf
               [] ~has_data /\ has_le -> buf \o <<ShortLeByte(Unwrap(cmd.le))>>
               [] has_data /\ ~has_le ->
                    buf \o <<AsU8(Len(Unwrap(cmd.data)))>> \o Unwrap(cmd.data)
               [] OTHER ->
                    buf \o <<AsU8(Len(Unwrap(cmd.data)))>> \o Unwrap(cmd.data)
                        \o <<ShortLeByte(Unwrap(cmd.le))>>

\* a variant that takes the status word from the front of the reply
decode_status_first(raw) ==
    IF Len(raw) < 2
    THEN [ok |-> FALSE, data |-> <<>>, sw1 |-> 0, sw2 |-> 0,
          err |-> IncompleteResponse(Len(raw))]
    ELSE [ok |-> TRUE, data |-> Drop(raw, 2), sw1 |-> raw[1], sw2 |-> raw[2],
          err |-> NoError]

\* Result<ApduResponse, ApduError>
decode_apdu_response(raw) ==
    IF Len(raw) < 2
    THEN [ok |-> FALSE, data |-> <<>>, sw1 |-> 0, sw2 |-> 0,
          err |-> IncompleteResponse(Len(raw))]
    ELSE [ok |-> TRUE, data |-> Take(raw, Len(raw) - 2),
          sw1 |-> raw[Len(raw) - 1], sw2 |-> raw[Len(raw)], err |-> NoError]

\* a variant that reports the whole sw2 as the retry count and mixes up the
\* two 0x69 status words
status_to_error_mixed(sw1, sw2) ==
    CASE sw1 = 144 /\ sw2 = 0 -> NoError
      [] sw1 = 97 -> NoError
      [] sw1 = 99 /\ 16 * (sw2 \div 16) = 192 -> PinInvalid(sw2)
      [] sw1 = 105 /\ sw2 = 131 -> SoPinInvalid
      [] sw1 = 105 /\ sw2 = 130 -> PinLocked
      [] sw1 = 106 /\ sw2 = 130 -> KeyNotFound(0)
      [] sw1 = 106 /\ sw2 = 136 -> KeyNotFound(0)
      [] OTHER -> StatusError(sw1, sw2)

\* Option<HsmError>: NoError stands for None.  sw2 & 0xF0 is 16 * (sw2 \div 16),
\* sw2 & 0x0F is sw2 % 16.
status_to_error(sw1, sw2) ==
    CASE sw1 = 144 /\ sw2 = 0 -> NoError
      [] sw1 = 97 -> NoError
      [] sw1 = 99 /\ 16 * (sw2 \div 16) = 192 -> PinInvalid(sw2 % 16)
      [] sw1 = 105 /\ sw2 = 131 -> PinLocked
      [] sw1 = 105 /\ sw2 = 130 -> SoPinInvalid
      [] sw1 = 106 /\ sw2 = 130 -> KeyNotFound(0)
      [] sw1 = 106 /\ sw2 = 136 -> KeyNotFound(0)
      [] OTHER -> StatusError(sw1, sw2)

---------------------------------------------------------------------------
(* Codec calls: the inputs are drawn by the initial state, one action per  *)
(* codec function applies it.                                              *)

MaxDataLen == 300
MaxRawLen == 3

\* data lengths around the short/extended threshold
DataLens == {0, 1, 2, 254, 255, 256, 257, MaxDataLen}
\* u16 Le values around the short/extended threshold
LeValues == {0, 1, 16, 255, 256, 257, 500, 65535}
\* bytes used to fill payloads and raw replies
SampleBytes == {0, 97, 144, 171, 255}

Payload(n, b) == [i \in 1..n |-> AsU8(b + i - 1)]

RECURSIVE SeqsUpTo(_, _)
SeqsUpTo(S, n) ==
    IF n = 0 THEN {<<>>}
    ELSE LET shorter == SeqsUpTo(S, n - 1)
         IN  shorter \cup {Append(s, x) : s \in {q \in shorter : Len(q) = n - 1}, x \in S}

DefaultCmd == ApduCommand(0, 0, 0, 0, None, None)
DefaultDec == [ok |-> FALSE, data |-> <<>>, sw1 |-> 0, sw2 |-> 0, err |-> NoError]

CodecCall(fn, cmd, raw, sw1, sw2) ==
    [fn |-> fn, cmd |-> cmd, raw |-> raw, sw1 |-> sw1, sw2 |-> sw2,
     text |-> <<>>, previous |-> <<>>, current |-> <<>>,
     done |-> FALSE, enc |-> <<>>, dec |-> DefaultDec, err |-> NoError, changed |-> FALSE]

CodecIdle == CodecCall("none", DefaultCmd, <<>>, 0, 0)

EncodeInputs ==
    {ApduCommand(cla, ins, 4, p2, data, le) :
        cla \in {0, 128}, ins \in {164, 176}, p2 \in {0, 129},
        data \in {None} \cup {Some(Payload(n, b)) : n \in DataLens, b \in {0, 171}},
        le \in {None} \cup {Some(v) : v \in LeValues}}

DecodeInputs ==
    SeqsUpTo(SampleBytes, MaxRawLen)
        \cup {d \o <<a, b>> : d \in {<<>>, <<171>>, <<97, 5>>}, a \in Byte, b \in SampleBytes}

InitCodecCalls ==
    {CodecCall("status_to_error", DefaultCmd, <<>>, a, b) : a \in Byte, b \in Byte}
        \cup {CodecCall("encode_apdu", c, <<>>, 0, 0) : c \in EncodeInputs}
        \cup {CodecCall("decode_apdu_response", DefaultCmd, r, 0, 0) : r \in DecodeInputs}

DoStatusToError ==
    /\ cx.fn = "status_to_error" /\ ~cx.done
    /\ cx' = [cx EXCEPT !.done = TRUE, !.err = status_to_error(cx.sw1, cx.sw2)]
    /\ UNCHANGED <<hsmVars, devVars, fidoVars>>

DoEncodeApdu ==
    /\ cx.fn = "encode_apdu" /\ ~cx.done
    /\ cx' = [cx EXCEPT !.done = TRUE, !.enc = encode_apdu(cx.cmd)]
    /\ UNCHANGED <<hsmVars, devVars, fidoVars>>

DoDecodeApduResponse ==
    /\ cx.fn = "decode_apdu_response" /\ ~cx.done
    /\ cx' = [cx EXCEPT !.done = TRUE, !.dec = decode_apdu_response(cx.raw)]
    /\ UNCHANGED <<hsmVars, devVars, fidoVars>>

---------------------------------------------------------------------------
(* Strings (Rust &str): sequences of Unicode code points.  len() counts     *)
(* UTF-8 bytes, chars() iterates the code points.                          *)

Utf8(cp) ==
    IF cp < 128 THEN <<cp>>
    ELSE IF cp < 2048 THEN <<192 + (cp \div 64), 128 + (cp % 64)>>
    ELSE <<224 + (cp \div 4096), 128 + ((cp \div 64) % 64), 128 + (cp % 64)>>

RECURSIVE as_bytes(_)
as_bytes(str) ==
    IF str = <<>> THEN <<>> ELSE Utf8(Head(str)) \o as_bytes(Tail(str))

str_len(str) == Len(as_bytes(str))

\* char::is_ascii_hexdigit: '0'..'9', 'A'..'F', 'a'..'f'
is_ascii_hexdigit(cp) ==
    (cp >= 48 /\ cp <= 57) \/ (cp >= 65 /\ cp <= 70) \/ (cp >= 97 /\ cp <= 102)

HexDigitValue(cp) ==
    IF cp >= 48 /\ cp <= 57 THEN cp - 48
    ELSE IF cp >= 65 /\ cp <= 70 THEN cp - 55
    ELSE cp - 87

\* hex_to_bytes: Ok(bytes) or Err(SoPinFormatInvalid); a trailing odd
\* character is dropped by the `while let (Some, Some)` loop.
RECURSIVE hex_to_bytes(_)
hex_to_bytes(hex) ==
    IF Len(hex) < 2 THEN [ok |-> TRUE, bytes |-> <<>>]
    ELSE IF ~(is_ascii_hexdigit(hex[1]) /\ is_ascii_hexdigit(hex[2]))
         THEN [ok |-> FALSE, bytes |-> <<>>]
         ELSE LET rest == hex_to_bytes(Drop(hex, 2))
              IN  IF rest.ok
                  THEN [ok |-> TRUE,
                        bytes |-> <<16 * HexDigitValue(hex[1]) + HexDigitValue(hex[2])>>
                                      \o rest.bytes]
                  ELSE rest

---------------------------------------------------------------------------
(* HSM command layer (hsm/mod.rs): local validation *)

\* SC-HSM application identifier: E8 2B 06 01 04 01 81 C3 1F 02 01
SC_HSM_AID == <<232, 43, 6, 1, 4, 1, 129, 195, 31, 2, 1>>

validate_pin(pin) ==
    LET len == str_len(pin)
    IN  IF len < 6 \/ len > 16 THEN PinFormatInvalid ELSE NoError

\* a variant that accepts any 16 bytes
validate_so_pin_length_only(so_pin) ==
    IF str_len(so_pin) # 16 THEN SoPinFormatInvalid ELSE NoError

validate_so_pin(so_pin) ==
    IF str_len(so_pin) # 16 THEN SoPinFormatInvalid
    ELSE IF ~(\A i \in 1..Len(so_pin) : is_ascii_hexdigit(so_pin[i]))
         THEN SoPinFormatInvalid
         ELSE NoError

\* a variant that lets 512-bit RSA keys through
RsaBitsWith512 == {512, 1024, 2048, 3072, 4096}

RsaBits == {1024, 2048, 3072, 4096}
AesBits == {128, 192, 256}
EcCurves == {"secp256r1", "brainpoolP256r1", "secp384r1", "secp521r1"}

\* the first error of a list of checks made in order (the `?` operator)
RECURSIVE FirstError(_)
FirstError(checks) ==
    IF checks = <<>> THEN NoError
    ELSE IF Head(checks) # NoError THEN Head(checks)
    ELSE FirstError(Tail(checks))

NotEmpty(x, msg) == IF x = <<>> THEN CommunicationError(msg) ELSE NoError
Allowed(x, S) == IF x \in S THEN NoError ELSE NotSupported
HexOk(so_pin) == IF hex_to_bytes(so_pin).ok THEN NoError ELSE SoPinFormatInvalid

\* The checks each operation makes before its first execute_apdu, in the
\* order the code makes them.
Checks(c) ==
    CASE c.op = "initialize" ->
           <<validate_pin(c.pin), validate_so_pin(c.so_pin), HexOk(c.so_pin)>>
      [] c.op = "verify_pin" -> <<validate_pin(c.pin)>>
      [] c.op = "change_pin" -> <<validate_pin(c.pin), validate_pin(c.new_pin)>>
      [] c.op = "change_so_pin" ->
           <<validate_so_pin(c.so_pin), validate_so_pin(c.new_so_pin),
             HexOk(c.so_pin), HexOk(c.new_so_pin)>>
      [] c.op = "unblock_pin" ->
           <<validate_so_pin(c.so_pin), validate_pin(c.new_pin), HexOk(c.so_pin)>>
      [] c.op \in {"list_keys", "delete_key", "list_certificates", "wrap_key"} ->
           <<validate_pin(c.pin)>>
      [] c.op = "generate_rsa_key" -> <<validate_pin(c.pin), Allowed(c.bits, RsaBits)>>
      [] c.op = "generate_ec_key" -> <<validate_pin(c.pin), Allowed(c.curve, EcCurves)>>
      [] c.op = "generate_aes_key" -> <<validate_pin(c.pin), Allowed(c.bits, AesBits)>>
      [] c.op = "import_certificate" ->
           <<validate_pin(c.pin), NotEmpty(c.data, "empty certificate")>>
      [] c.op = "create_dkek_share" -> <<NotEmpty(c.password, "empty DKEK password")>>
      [] c.op = "import_dkek_share" ->
           <<NotEmpty(c.data, "empty DKEK share"),
             NotEmpty(c.password, "empty DKEK password")>>
      [] c.op = "unwrap_key" ->
           <<validate_pin(c.pin), NotEmpty(c.data, "empty wrapped key")>>
      [] OTHER -> <<>>

\* enable_secure_lock and disable_secure_lock: the whole body is one Err(..)
SecureLockOps == {"enable_secure_lock", "disable_secure_lock"}
secure_lock(c) == CommunicationError("secure lock needs ECDH key agreement, not supported yet")

\* a variant that forgets the last check of every operation
ValidateSkippingLast(c) ==
    FirstError(IF Checks(c) = <<>> THEN <<>> ELSE Take(Checks(c), Len(Checks(c)) - 1))

\* The error an operation returns before any execute_apdu, or NoError.
Validate(c) == FirstError(Checks(c))

---------------------------------------------------------------------------
(* HSM command layer: the APDU commands of each operation *)

\* curve.as_bytes() of the curve names the model uses
CurveBytes(curve) ==
    CASE curve = "secp256r1" -> <<115, 101, 99, 112, 50, 53, 54, 114, 49>>
      [] curve = "secp384r1" -> <<115, 101, 99, 112, 51, 56, 52, 114, 49>>
      [] curve = "secp521r1" -> <<115, 101, 99, 112, 53, 50, 49, 114, 49>>
      [] curve = "brainpoolP256r1" ->
           <<98, 114, 97, 105, 110, 112, 111, 111, 108, 80, 50, 53, 54, 114, 49>>
      [] OTHER -> <<63>>

FidPrefix(key_type) ==
    CASE key_type = "PrivateKey" -> 204
      [] key_type = "PublicKey" -> 196
      [] key_type = "SecretKey" -> 205
      [] OTHER -> 206

\* VERIFY (INS 0x20, P2 0x81) as built by verify_pin
VerifyCmd(pin) == ApduCommand(0, 32, 0, 129, Some(as_bytes(pin)), None)

\* ENUMERATE OBJECTS (CLA 0x80, INS 0x58, Le 256)
EnumerateCmd == ApduCommand(128, 88, 0, 0, None, Some(256))

\* SELECT by AID as built by select_hsm_applet
SelectCmd == ApduCommand(0, 164, 4, 0, Some(SC_HSM_AID), None)

\* INITIALIZE without data (CLA 0x80, INS 0x50) and EXTRAS/CMD_MEMORY
\* (CLA 0x80, INS 0x64, P1 0x05), both with Le 256
InitCmd == ApduCommand(128, 80, 0, 0, None, Some(256))
MemoryCmd == ApduCommand(128, 100, 5, 0, None, Some(256))

\* The substantive command of an operation (its last execute_apdu).
SubstantiveCmd(c) ==
    CASE c.op = "initialize" ->
           LET so == hex_to_bytes(c.so_pin).bytes
           IN  ApduCommand(128, 80, 0, 0,
                   Some(<<129, AsU8(str_len(c.pin))>> \o as_bytes(c.pin)
                        \o <<130, AsU8(Len(so))>> \o so
                        \o <<146, 1, c.shares>>), None)
      [] c.op = "verify_pin" -> VerifyCmd(c.pin)
      [] c.op = "change_pin" ->
           ApduCommand(0, 36, 0, 129,
               Some(as_bytes(c.pin) \o <<0>> \o as_bytes(c.new_pin)), None)
      [] c.op = "change_so_pin" ->
           ApduCommand(0, 36, 0, 136,
               Some(hex_to_bytes(c.so_pin).bytes \o <<0>>
                    \o hex_to_bytes(c.new_so_pin).bytes), None)
      [] c.op = "unblock_pin" ->
           ApduCommand(0, 44, 0, 129,
               Some(hex_to_bytes(c.so_pin).bytes \o <<0>> \o as_bytes(c.new_pin)), None)
      [] c.op \in {"list_keys", "list_certificates"} -> EnumerateCmd
      [] c.op = "generate_rsa_key" ->
           ApduCommand(0, 70, c.id, 0,
               Some(<<48, AsU8(c.bits \div 256), AsU8(c.bits % 256)>> \o as_bytes(c.label)),
               None)
      [] c.op = "generate_ec_key" ->
           ApduCommand(0, 70, c.id, 0,
               Some(<<49>> \o CurveBytes(c.curve) \o <<0>> \o as_bytes(c.label)), None)
      [] c.op = "generate_aes_key" ->
           ApduCommand(0, 72, c.id, 0,
               Some(<<50, AsU8(c.bits \div 256), AsU8(c.bits % 256)>>), None)
      [] c.op = "delete_key" ->
           ApduCommand(0, 228, FidPrefix(c.key_type), c.id, None, None)
      [] c.op = "import_certificate" ->
           ApduCommand(0, 215, 206, c.id, Some(c.data), None)
      [] c.op = "export_certificate" ->
           ApduCommand(0, 176, 206, c.id, None, Some(256))
      [] c.op = "create_dkek_share" ->
           ApduCommand(128, 82, 0, 146, Some(as_bytes(c.password)), Some(256))
      [] c.op = "import_dkek_share" ->
           ApduCommand(128, 82, 0, 147,
               Some(c.data \o <<0>> \o as_bytes(c.password)), Some(256))
      [] c.op = "wrap_key" -> ApduCommand(128, 114, c.id, 146, None, Some(256))
      [] c.op = "unwrap_key" -> ApduCommand(128, 116, c.id, 147, Some(c.data), None)
      [] OTHER -> DefaultCmd

\* The operations that call self.verify_pin(pin) before their own command.
PinGatedOps ==
    {"list_keys", "generate_rsa_key", "generate_ec_key", "generate_aes_key",
     "delete_key", "list_certificates", "import_certificate", "wrap_key", "unwrap_key"}

\* a variant in which no operation calls verify_pin first
CommandsUnverified(c) ==
    IF c.op = "get_device_info" THEN <<SelectCmd, InitCmd, MemoryCmd>>
    ELSE <<SubstantiveCmd(c)>>

\* The execute_apdu calls of an operation, in order.  The first exchange of
\* get_device_info is the SELECT of select_and_get_info alone.
Commands(c) ==
    IF c.op = "get_device_info" THEN <<SelectCmd, InitCmd, MemoryCmd>>
    ELSE IF c.op \in PinGatedOps THEN <<VerifyCmd(c.pin), SubstantiveCmd(c)>>
    ELSE <<SubstantiveCmd(c)>>

\* ENUMERATE OBJECTS reply: (prefix, id) pairs; the ids whose prefix is in P
RECURSIVE FilterObjects(_, _)
FilterObjects(data, P) ==
    IF Len(data) < 2 THEN <<>>
    ELSE (IF data[1] \in P THEN <<[prefix |-> data[1], id |-> data[2]]>> ELSE <<>>)
             \o FilterObjects(Drop(data, 2), P)

\* a variant in which export_certificate returns empty data as a success
OpResultEmptyOk(c, data) ==
    CASE c.op = "list_keys" ->
           [ok |-> TRUE, err |-> NoError, val |-> FilterObjects(data, {204, 196, 205})]
      [] c.op = "list_certificates" ->
           [ok |-> TRUE, err |-> NoError, val |-> FilterObjects(data, {206, 202})]
      [] OTHER -> [ok |-> TRUE, err |-> NoError, val |-> data]

\* The value an operation returns from the data of its last exchange.
OpResult(c, data) ==
    CASE c.op = "list_keys" ->
           [ok |-> TRUE, err |-> NoError, val |-> FilterObjects(data, {204, 196, 205})]
      [] c.op = "list_certificates" ->
           [ok |-> TRUE, err |-> NoError, val |-> FilterObjects(data, {206, 202})]
      [] c.op = "export_certificate" ->
           IF data = <<>>
           THEN [ok |-> FALSE, err |-> CertificateNotFound(c.id), val |-> <<>>]
           ELSE [ok |-> TRUE, err |-> NoError, val |-> data]
      [] c.op \in {"create_dkek_share", "wrap_key"} ->
           [ok |-> TRUE, err |-> NoError, val |-> data]
      [] OTHER -> [ok |-> TRUE, err |-> NoError, val |-> <<>>]

Failure(e) == [ok |-> FALSE, err |-> e, val |-> <<>>]
NoResult == [ok |-> FALSE, err |-> NoError, val |-> <<>>]

---------------------------------------------------------------------------
(* HSM command layer: state of a running operation                         *)
(*                                                                         *)
(* th[t] is the state of thread t inside HsmModuleImpl:                    *)
(*   pc     idle | connect | select | apdu | done                          *)
(*   call   the operation and its arguments                                *)
(*   xi     which execute_apdu call of the operation is running            *)
(*   conn   the card connection of the running execute_apdu (0 = none)     *)
(*   tx     the running (or last) transmit_raw call                        *)
(*   log    every PC/SC call the operation made, in order                  *)
(*   ret    the value the operation returned                               *)
(*   stage  where the returned value was decided                           *)

Threads == {1, 2}

MaxChain == 2
MaxBuf == 4

Event(e, reader, conn, bytes, ok) ==
    [e |-> e, reader |-> reader, conn |-> conn, bytes |-> bytes, ok |-> ok]

NoTx == [state |-> "none", cmd |-> <<>>, gets |-> <<>>, replies |-> <<>>, result |-> <<>>]
StartTx(raw) ==
    [state |-> "send", cmd |-> raw, gets |-> <<>>, replies |-> <<>>, result |-> <<>>]

HsmCallRec(op, pin, new_pin, so_pin, new_so_pin, bits, curve, id, data, password, key_type) ==
    [op |-> op, pin |-> pin, new_pin |-> new_pin, so_pin |-> so_pin,
     new_so_pin |-> new_so_pin, bits |-> bits, curve |-> curve, id |-> id,
     label |-> <<116, 101, 115, 116>>, data |-> data, password |-> password,
     key_type |-> key_type, shares |-> 1]

NoCall == HsmCallRec("none", <<>>, <<>>, <<>>, <<>>, 0, "", 0, <<>>, <<>>, "")

\* HsmDeviceInfo as get_device_info builds it; the version is the pair
\* (major, minor), or empty for the string "unknown"; a counter n is kept
\* as its two 16-bit halves <<n / 2^16, n % 2^16>>
Unknown == <<>>
NoInfo ==
    [firmware_version |-> Unknown, free_memory |-> <<0, 0>>, used_memory |-> <<0, 0>>,
     total_memory |-> <<0, 0>>, file_count |-> <<0, 0>>]

\* info is what get_device_info has gathered so far, outs the outcomes of
\* the exchanges it has made (xi = 1 SELECT, 2 INITIALIZE, 3 memory)
IdleThread ==
    [pc |-> "idle", call |-> NoCall, xi |-> 0, conn |-> 0, tx |-> NoTx,
     log |-> <<>>, ret |-> NoResult, stage |-> "none", info |-> NoInfo, outs |-> <<>>]

\* an operation returns e; stage tells where it was decided
Fail(st, e, stage) == [st EXCEPT !.pc = "done", !.ret = Failure(e), !.stage = stage]

\* parse_version_from_select: the first tag 0x85 from position i on whose
\* length byte is at least 5 and fits gives (payload[3], payload[4])
RECURSIVE parse_version_from(_, _)
parse_version_from(data, i) ==
    IF i + 1 >= Len(data) THEN Unknown
    ELSE IF data[i + 1] = 133 /\ i + 2 + data[i + 2] <= Len(data) /\ data[i + 2] >= 5
         THEN <<data[i + 6], data[i + 7]>>
         ELSE parse_version_from(data, i + 1)

parse_version_from_select(data) == parse_version_from(data, 0)

\* a variant that reads the four bytes least significant first
from_le_bytes(b) == <<256 * b[4] + b[3], 256 * b[2] + b[1]>>

\* u32::from_be_bytes
from_be_bytes(b) == <<256 * b[1] + b[2], 256 * b[3] + b[4]>>

\* step 3 of get_device_info: the counters of a reply of 16 bytes or more
MemoryFields(info, r) ==
    IF r.ok /\ Len(r.val) >= 16
    THEN [info EXCEPT !.free_memory = from_be_bytes(SubSeq(r.val, 1, 4)),
                      !.used_memory = from_be_bytes(SubSeq(r.val, 5, 8)),
                      !.total_memory = from_be_bytes(SubSeq(r.val, 9, 12)),
                      !.file_count = from_be_bytes(SubSeq(r.val, 13, 16))]
    ELSE info

\* get_device_info goes on after exchange st.xi ended with r, Ok(data) or Err:
\* after SELECT it asks for the version with INITIALIZE if the reply held
\* none; after INITIALIZE, whatever came of it, it asks for the memory
\* counters; after that, whatever came of it, it returns Ok.
get_device_info_step(st, r) ==
    LET seen == [st EXCEPT !.outs = Append(@, [xi |-> st.xi, ok |-> r.ok, val |-> r.val]),
                           !.conn = 0]
    IN  CASE st.xi = 1 ->
               LET v == parse_version_from_select(r.val)
               IN  [seen EXCEPT !.info.firmware_version = v, !.pc = "connect",
                                !.xi = IF v = Unknown THEN 2 ELSE 3]
          [] st.xi = 2 ->
               [seen EXCEPT !.info.firmware_version =
                                IF r.ok /\ Len(r.val) >= 7 THEN <<r.val[6], r.val[7]>> ELSE @,
                            !.pc = "connect", !.xi = 3]
          [] OTHER ->
               [seen EXCEPT !.pc = "done", !.stage = "complete",
                            !.ret = [ok |-> TRUE, err |-> NoError,
                                     val |-> MemoryFields(st.info, r)]]

\* a variant in which every error is returned to the caller of the operation
RaiseToCaller(st, e, stage) == Fail(st, e, stage)

\* an error of connect_card, transmit_raw, select_hsm_applet or execute_apdu
\* reaches the operation: get_device_info catches those of its second and
\* third exchange (`_ =>`), everywhere else `?` returns it.
Raise(st, e, stage) ==
    IF st.call.op = "get_device_info" /\ st.xi >= 2
    THEN get_device_info_step(st, Failure(e))
    ELSE Fail(st, e, stage)

\* `history` switches the bookkeeping of sent commands and received replies
Record(history, log, x) == IF history THEN Append(log, x) ELSE log

\* An operation is called: its local checks run before anything else.
HsmCall(t, c) ==
    /\ th[t].pc = "idle"
    /\ th' = [th EXCEPT ![t] =
                 IF c.op \in SecureLockOps
                 THEN Fail([IdleThread EXCEPT !.call = c], secure_lock(c), "unsupported")
                 ELSE IF Validate(c) # NoError
                 THEN Fail([IdleThread EXCEPT !.call = c], Validate(c), "validation")
                 ELSE [IdleThread EXCEPT !.call = c, !.pc = "connect", !.xi = 1]]
    /\ UNCHANGED <<device_path, token_options, codecVars, fidoVars, devVars>>

\* The operation's result is handed to the caller.
HsmReturn(t) ==
    /\ th[t].pc = "done"
    /\ th' = [th EXCEPT ![t] = IdleThread]
    /\ UNCHANGED <<device_path, token_options, codecVars, fidoVars, devVars>>

\* set_device_path, called by the open_device command
set_device_path(path) ==
    /\ device_path' = path
    /\ UNCHANGED <<th, token_options, codecVars, fidoVars, devVars>>

\* the bit of an option in the options byte
OptionBit(option) == IF option = "PressToConfirm" THEN 1 ELSE 2

\* opts & bit != 0
HasBit(opts, bit) == (opts \div bit) % 2 = 1

\* get_options after execute_apdu returned Ok(data): the first two bytes are
\* the options word, big-endian; fewer than two bytes count as no option set
HsmOptions(data) ==
    LET opts == IF Len(data) >= 2 THEN data[1] * 256 + data[2] ELSE 0
    IN  [press_to_confirm |-> HasBit(opts, 1), key_usage_counter |-> HasBit(opts, 2)]

\* the byte set_option writes: the two options as read, with the bit of
\* `option` set or cleared
OptionsByte(current, option, enabled) ==
    LET read == (IF current.press_to_confirm THEN 1 ELSE 0)
                    + (IF current.key_usage_counter THEN 2 ELSE 0)
        bit == OptionBit(option)
    IN  IF enabled
        THEN (IF HasBit(read, bit) THEN read ELSE read + bit)
        ELSE (IF HasBit(read, bit) THEN read - bit ELSE read)

OptionCall(op, option, enabled) == [op |-> op, option |-> option, enabled |-> enabled]

\* what an execute_apdu of these two operations can fail with
ExchangeErrors ==
    {CommunicationError("cannot connect to reader"), StatusError(105, 130)}

\* what the token answers to the read of its options: the options word, or
\* a reply without data
OptionsReplies == {<<0, token_options>>, <<>>}

\* get_options or set_option is called; neither has a local check
options_call(t, c) ==
    /\ th[t].pc = "idle"
    /\ th' = [th EXCEPT ![t] = [IdleThread EXCEPT !.call = c, !.pc = "get_options",
                                                  !.xi = 1]]
    /\ UNCHANGED <<device_path, token_options, codecVars, fidoVars, devVars>>

\* get_options, called by the frontend or as the first half of set_option:
\* one execute_apdu of EXTRAS 80 64 06 00 that reads the options
get_options(t) ==
    LET st == th[t]
    IN  /\ st.pc = "get_options"
        /\ \/ \E e \in ExchangeErrors :
                th' = [th EXCEPT ![t] = Fail(st, e, "get_options")]
           \/ \E data \in OptionsReplies :
                th' = [th EXCEPT ![t] =
                          IF st.call.op = "get_options"
                          THEN [st EXCEPT !.pc = "done",
                                          !.ret = [ok |-> TRUE, err |-> NoError,
                                                   val |-> HsmOptions(data)]]
                          ELSE [st EXCEPT !.pc = "set_option", !.xi = 2,
                                          !.outs = Append(@, [xi |-> 1, ok |-> TRUE,
                                                              val |-> data])]]
        /\ UNCHANGED <<device_path, token_options, codecVars, fidoVars, devVars>>

\* set_option once get_options has returned Ok(current): one execute_apdu of
\* EXTRAS 80 64 06 00 with the options byte as data; the token takes the
\* byte for its options
set_option(t) ==
    LET st == th[t]
        current == HsmOptions(st.outs[1].val)
        opts == OptionsByte(current, st.call.option, st.call.enabled)
    IN  /\ st.pc = "set_option"
        /\ \/ /\ \E e \in ExchangeErrors :
                     th' = [th EXCEPT ![t] = Fail(st, e, "set_option")]
              /\ UNCHANGED token_options
           \/ /\ th' = [th EXCEPT ![t] =
                           [st EXCEPT !.pc = "done",
                                      !.ret = [ok |-> TRUE, err |-> NoError, val |-> <<>>],
                                      !.outs = Append(@, [xi |-> 2, ok |-> TRUE,
                                                          val |-> <<opts>>])]]
              /\ token_options' = opts
        /\ UNCHANGED <<device_path, codecVars, fidoVars, devVars>>

\* a variant that does not look whether a device has been selected
connect_card_any_path(t) ==
    LET st == th[t]
        path == device_path
        k == Cardinality({i \in 1..Len(st.log) : st.log[i].e = "connect"}) + 1
        est(ok) == Event("establish", "", 0, <<>>, ok)
        con(ok) == Event("connect", path, k, <<>>, ok)
    IN  /\ st.pc = "connect"
        /\ \/ th' = [th EXCEPT ![t] =
                         Raise([st EXCEPT !.log = Append(@, est(FALSE))],
                               CommunicationError("PC/SC unavailable"), "connect")]
           \/ th' = [th EXCEPT ![t] =
                         Raise([st EXCEPT !.log = @ \o <<est(TRUE), con(FALSE)>>],
                               CommunicationError("cannot connect to reader"), "connect")]
           \/ th' = [th EXCEPT ![t] =
                         [st EXCEPT !.log = @ \o <<est(TRUE), con(TRUE)>>,
                                    !.conn = k, !.pc = "select",
                                    !.tx = StartTx(encode_apdu(SelectCmd))]]
        /\ UNCHANGED <<device_path, token_options, codecVars, fidoVars, devVars>>

\* connect_card at the start of execute_apdu: read the device path, establish
\* a PC/SC context, connect to the reader of that name.
connect_card(t) ==
    LET st == th[t]
        path == device_path
        k == Cardinality({i \in 1..Len(st.log) : st.log[i].e = "connect"}) + 1
        est(ok) == Event("establish", "", 0, <<>>, ok)
        con(ok) == Event("connect", path, k, <<>>, ok)
    IN  /\ st.pc = "connect"
        /\ \/ /\ path = ""
              /\ th' = [th EXCEPT ![t] =
                           Raise(st, CommunicationError("no device selected"), "connect")]
           \/ /\ path # ""
              /\ th' = [th EXCEPT ![t] =
                           Raise([st EXCEPT !.log = Append(@, est(FALSE))],
                                CommunicationError("PC/SC unavailable"), "connect")]
           \/ /\ path # ""
              /\ th' = [th EXCEPT ![t] =
                           Raise([st EXCEPT !.log = @ \o <<est(TRUE), con(FALSE)>>],
                                CommunicationError("cannot connect to reader"), "connect")]
           \/ /\ path # ""
              /\ th' = [th EXCEPT ![t] =
                           [st EXCEPT !.log = @ \o <<est(TRUE), con(TRUE)>>,
                                      !.conn = k, !.pc = "select",
                                      !.tx = StartTx(encode_apdu(SelectCmd))]]
        /\ UNCHANGED <<device_path, token_options, codecVars, fidoVars, devVars>>

\* the loop goes on: at least two bytes, and sw1 (the last but one) is 0x61
ChainPending(result) ==
    Len(result) >= 2 /\ result[Len(result) - 1] = 97

\* a variant that asks for sw1 bytes instead of sw2 bytes
GetResponseWithSw1(result) == <<0, 192, 0, 0, result[Len(result) - 1]>>

\* GET RESPONSE: CLA=00 INS=C0 P1=00 P2=00 Le=sw2
GetResponseCmd(result) == <<0, 192, 0, 0, result[Len(result)]>>

\* the buffer after a GET RESPONSE reply: the data received so far, without
\* the trailing SW1/SW2, followed by the new reply
MergeReply(result, gr) == Take(result, Len(result) - 2) \o gr

\* transmit_raw, the initial card.transmit: it fails, or the token replies r.
TransmitInitial(t, Replies, history) ==
    LET st == th[t]
        sent(ok) == Event("transmit", "", st.conn, st.tx.cmd, ok)
    IN  /\ st.pc \in {"select", "apdu"}
        /\ st.tx.state = "send"
        /\ \/ th' = [th EXCEPT ![t] =
                        Raise([st EXCEPT !.log = Record(history, @, sent(FALSE)),
                                        !.tx.state = "err"],
                             CommunicationError("APDU transmit failed"), "transmit")]
           \/ \E r \in Replies :
                /\ history \/ Len(r) <= MaxBuf
                /\ th' = [th EXCEPT ![t] =
                             [st EXCEPT !.log = Record(history, @, sent(TRUE)),
                                        !.tx.state = "loop",
                                        !.tx.replies = Record(history, @, r),
                                        !.tx.result = r]]
        /\ UNCHANGED <<device_path, token_options, codecVars, fidoVars, devVars>>

\* transmit_raw, one iteration of the loop that goes on: the buffer ends in
\* 61 XX, so the status is stripped and GET RESPONSE (00 C0 00 00 XX) is sent.
TransmitChain(t, Replies, history) ==
    LET st == th[t]
        result == st.tx.result
        get_resp_cmd == GetResponseCmd(result)
        sent(ok) == Event("transmit", "", st.conn, get_resp_cmd, ok)
    IN  /\ st.pc \in {"select", "apdu"}
        /\ st.tx.state = "loop"
        /\ ChainPending(result)
        /\ history => Len(st.tx.gets) < MaxChain
        /\ \/ th' = [th EXCEPT ![t] =
                        Raise([st EXCEPT !.log = Record(history, @, sent(FALSE)),
                                        !.tx.gets = Record(history, @, get_resp_cmd),
                                        !.tx.state = "err"],
                             CommunicationError("GET RESPONSE failed"), "transmit")]
           \/ \E gr \in Replies :
                /\ history \/ Len(MergeReply(result, gr)) <= MaxBuf
                /\ th' = [th EXCEPT ![t] =
                             [st EXCEPT !.log = Record(history, @, sent(TRUE)),
                                        !.tx.gets = Record(history, @, get_resp_cmd),
                                        !.tx.replies = Record(history, @, gr),
                                        !.tx.result = MergeReply(result, gr)]]
        /\ UNCHANGED <<device_path, token_options, codecVars, fidoVars, devVars>>

\* transmit_raw, the iteration that breaks out of the loop and returns Ok(result)
TransmitReturn(t) ==
    LET st == th[t]
    IN  /\ st.pc \in {"select", "apdu"}
        /\ st.tx.state = "loop"
        /\ ~ChainPending(st.tx.result)
        /\ th' = [th EXCEPT ![t].tx.state = "ok"]
        /\ UNCHANGED <<device_path, token_options, codecVars, fidoVars, devVars>>

\* a variant that does not look at the status word
InterpretAnyStatus(response_bytes) ==
    LET response == decode_apdu_response(response_bytes)
    IN  IF ~response.ok
        THEN [ok |-> FALSE, err |-> CommunicationError("incomplete response"),
              val |-> <<>>, stage |-> "decode"]
        ELSE [ok |-> TRUE, err |-> NoError, val |-> response.data, stage |-> "none"]

\* What select_hsm_applet and execute_apdu make of the bytes transmit_raw
\* returned: Err(CommunicationError) when they do not decode, the error of the
\* status word, or Ok(data).
Interpret(response_bytes) ==
    LET response == decode_apdu_response(response_bytes)
    IN  IF ~response.ok
        THEN [ok |-> FALSE, err |-> CommunicationError("incomplete response"),
              val |-> <<>>, stage |-> "decode"]
        ELSE IF status_to_error(response.sw1, response.sw2) # NoError
        THEN [ok |-> FALSE, err |-> status_to_error(response.sw1, response.sw2),
              val |-> <<>>, stage |-> "status"]
        ELSE [ok |-> TRUE, err |-> NoError, val |-> response.data, stage |-> "none"]

\* select_hsm_applet after its transmit_raw returned; on success execute_apdu
\* goes on to encode and transmit the command.
select_hsm_applet(t) ==
    LET st == th[t]
        r == Interpret(st.tx.result)
    IN  /\ st.pc = "select"
        /\ st.tx.state = "ok"
        /\ th' = [th EXCEPT ![t] =
                     IF ~r.ok THEN Raise(st, r.err, r.stage)
                     ELSE IF st.call.op = "get_device_info" /\ st.xi = 1
                     THEN get_device_info_step(st, r)
                     ELSE [st EXCEPT !.pc = "apdu",
                                     !.tx = StartTx(encode_apdu(Commands(st.call)[st.xi]))]]
        /\ UNCHANGED <<device_path, token_options, codecVars, fidoVars, devVars>>

\* execute_apdu after the command's transmit_raw returned; on success the
\* operation makes its next execute_apdu call or returns its value.
execute_apdu(t) ==
    LET st == th[t]
        r == Interpret(st.tx.result)
        out == OpResult(st.call, r.val)
    IN  /\ st.pc = "apdu"
        /\ st.tx.state = "ok"
        /\ th' = [th EXCEPT ![t] =
                     IF ~r.ok THEN Raise(st, r.err, r.stage)
                     ELSE IF st.call.op = "get_device_info"
                     THEN get_device_info_step(st, r)
                     ELSE IF st.xi < Len(Commands(st.call))
                     THEN [st EXCEPT !.pc = "connect", !.xi = @ + 1, !.conn = 0]
                     ELSE [st EXCEPT !.pc = "done", !.ret = out, !.conn = 0,
                                     !.stage = IF out.ok THEN "complete" ELSE "result"]]
        /\ UNCHANGED <<device_path, token_options, codecVars, fidoVars, devVars>>

---------------------------------------------------------------------------
(* Device manager (device_manager.rs)                                      *)
(*                                                                         *)
(* dm[t] is the state of thread t inside DeviceManagerImpl:                *)
(*   pc      idle | scan (open_device holds the lock and is rescanning)    *)
(*           | done                                                        *)
(*   op      open | close | scan                                           *)
(*   path    the argument                                                  *)
(*   before  the opened set when the call took the lock                    *)
(*   after   the opened set when the call released the lock                *)
(*   scans   the device lists the call's rescans returned                  *)
(*   hid     what scan_hid_devices returned to a scan_devices call         *)
(*   ccid    what scan_ccid_devices returned to a scan_devices call        *)
(*   ret     the value returned                                            *)

DeviceInfo(device_type, path) ==
    [device_type |-> device_type, path |-> path, serial |-> "",
     firmware_version |-> "unknown"]

AllDevices ==
    {DeviceInfo("PicoFido", "hid-1"), DeviceInfo("PicoHsm", "reader-A")}

\* the paths callers pass: those of the devices and one that names no device
DevicePaths == {d.path : d \in AllDevices} \cup {"absent"}

NotFound(path) == Err("NotFound", 0, 0, path)
DevOk == [ok |-> TRUE, err |-> NoError]
DevErr(e) == [ok |-> FALSE, err |-> e]

\* every sequence that lists each element of S once
RECURSIVE Orderings(_)
Orderings(S) ==
    IF S = {} THEN {<<>>}
    ELSE UNION {{<<x>> \o o : o \in Orderings(S \ {x})} : x \in S}

\* scan_hid_devices: the HID backend fails, or lists the FIDO tokens present
HidResults(present) ==
    {[ok |-> FALSE, devs |-> <<>>]}
        \cup {[ok |-> TRUE, devs |-> o] :
                 o \in Orderings({d \in present : d.device_type = "PicoFido"})}

\* scan_ccid_devices: the PC/SC backend fails, or lists the HSM tokens whose
\* reader could be connected (a reader that fails to connect is skipped)
CcidResults(present) ==
    {[ok |-> FALSE, devs |-> <<>>]}
        \cup {[ok |-> TRUE, devs |-> o] :
                 o \in UNION {Orderings(S) :
                                 S \in SUBSET {d \in present : d.device_type = "PicoHsm"}}}

\* a variant that gives up the whole scan when the HID backend fails
scan_devices_hid_required(hid, ccid) ==
    IF hid.ok THEN hid.devs \o (IF ccid.ok THEN ccid.devs ELSE <<>>) ELSE <<>>

\* scan_devices: a failed backend contributes nothing
scan_devices(hid, ccid) ==
    (IF hid.ok THEN hid.devs ELSE <<>>) \o (IF ccid.ok THEN ccid.devs ELSE <<>>)

ScanPaths(all) == {all[i].path : i \in 1..Len(all)}

\* a variant that compares the two lists element by element
devices_changed_positional(previous, current) == previous # current

\* devices_changed: the lengths differ, or the sets of paths differ
devices_changed(previous, current) ==
    IF Len(previous) # Len(current) THEN TRUE
    ELSE ScanPaths(previous) # ScanPaths(current)

\* a variant that takes every path for present
PathListedAlways(all, path) == TRUE

\* all.iter().any(|d| d.path == path)
PathListed(all, path) == \E i \in 1..Len(all) : all[i].path = path

\* a variant that never finds a path in the opened set
contains_never(set, path) == FALSE

\* HashSet::contains
contains(set, path) == path \in set

\* a variant that reports every path as removed
remove_any(set, path) == [removed |-> TRUE, rest |-> set \ {path}]

\* HashSet::remove: whether the value was present, and the set without it
remove(set, path) == [removed |-> path \in set, rest |-> set \ {path}]

NoBackendResult == [ok |-> TRUE, devs |-> <<>>]

IdleDm ==
    [pc |-> "idle", op |-> "none", path |-> "", before |-> {}, after |-> {},
     scans |-> <<>>, hid |-> NoBackendResult, ccid |-> NoBackendResult, ret |-> DevOk]

\* a device is plugged in or pulled out
Plug(d) ==
    /\ d \notin plugged
    /\ plugged' = plugged \cup {d}
    /\ UNCHANGED <<dm, opened, lockHolder, codecVars, fidoVars, hsmVars, mon>>

Unplug(d) ==
    /\ d \in plugged
    /\ plugged' = plugged \ {d}
    /\ UNCHANGED <<dm, opened, lockHolder, codecVars, fidoVars, hsmVars, mon>>

\* open_device up to the rescan: take the lock; a path already opened returns
\* Ok at once, any other path goes on to rescan with the lock still held.
open_device_lock(t, path) ==
    /\ dm[t].pc = "idle"
    /\ lockHolder = 0
    /\ IF contains(opened, path)
       THEN /\ dm' = [dm EXCEPT ![t] =
                         [IdleDm EXCEPT !.pc = "done", !.op = "open", !.path = path,
                                        !.before = opened, !.after = opened,
                                        !.ret = DevOk]]
            /\ UNCHANGED lockHolder
       ELSE /\ dm' = [dm EXCEPT ![t] =
                         [IdleDm EXCEPT !.pc = "scan", !.op = "open", !.path = path,
                                        !.before = opened]]
            /\ lockHolder' = t
    /\ UNCHANGED <<opened, plugged, codecVars, fidoVars, hsmVars, mon>>

\* open_device from the rescan on: the path must be in the list scan_devices
\* returns now; then it is inserted.  The lock is released on return.
open_device_scan(t) ==
    /\ dm[t].pc = "scan"
    /\ lockHolder = t
    /\ \E hid \in HidResults(plugged), ccid \in CcidResults(plugged) :
          LET all == scan_devices(hid, ccid)
              found == PathListed(all, dm[t].path)
              opened_after == IF found THEN opened \cup {dm[t].path} ELSE opened
          IN  /\ opened' = opened_after
              /\ dm' = [dm EXCEPT ![t] =
                           [@ EXCEPT !.pc = "done", !.scans = Append(@, all),
                                     !.after = opened_after,
                                     !.ret = IF found THEN DevOk
                                             ELSE DevErr(NotFound(dm[t].path))]]
    /\ lockHolder' = 0
    /\ UNCHANGED <<plugged, codecVars, fidoVars, hsmVars, mon>>

\* a variant that removes the path without taking the lock
close_device_unlocked(t, path) ==
    /\ dm[t].pc = "idle"
    /\ opened' = remove(opened, path).rest
    /\ dm' = [dm EXCEPT ![t] =
                 [IdleDm EXCEPT !.pc = "done", !.op = "close", !.path = path,
                                !.before = opened, !.after = remove(opened, path).rest,
                                !.ret = IF remove(opened, path).removed THEN DevOk
                                        ELSE DevErr(NotFound(path))]]
    /\ UNCHANGED <<lockHolder, plugged, codecVars, fidoVars, hsmVars, mon>>

\* close_device: take the lock, remove the path, release the lock
close_device(t, path) ==
    /\ dm[t].pc = "idle"
    /\ lockHolder = 0
    /\ opened' = remove(opened, path).rest
    /\ dm' = [dm EXCEPT ![t] =
                 [IdleDm EXCEPT !.pc = "done", !.op = "close", !.path = path,
                                !.before = opened, !.after = remove(opened, path).rest,
                                !.ret = IF remove(opened, path).removed THEN DevOk
                                        ELSE DevErr(NotFound(path))]]
    /\ UNCHANGED <<lockHolder, plugged, codecVars, fidoVars, hsmVars, mon>>

\* scan_devices called on its own (the scan_devices command): it takes no
\* lock, asks both backends and returns Ok with what they listed
scan_devices_call(t) ==
    /\ dm[t].pc = "idle"
    /\ \E hid \in HidResults(plugged), ccid \in CcidResults(plugged) :
          dm' = [dm EXCEPT ![t] =
                    [IdleDm EXCEPT !.pc = "done", !.op = "scan", !.before = opened,
                                   !.after = opened, !.hid = hid, !.ccid = ccid,
                                   !.scans = <<scan_devices(hid, ccid)>>,
                                   !.ret = DevOk]]
    /\ UNCHANGED <<opened, lockHolder, plugged, codecVars, fidoVars, hsmVars, mon>>

\* the call's result is handed to the caller
DmReturn(t) ==
    /\ dm[t].pc = "done"
    /\ dm' = [dm EXCEPT ![t] = IdleDm]
    /\ UNCHANGED <<opened, lockHolder, plugged, codecVars, fidoVars, hsmVars, mon>>

\* devices.iter().find(|d| d.path == path): the first device of that path
find(devices, path) ==
    LET hits == {i \in 1..Len(devices) : devices[i].path = path}
    IN  IF hits = {} THEN <<>>
        ELSE <<devices[CHOOSE i \in hits : \A j \in hits : i <= j]>>

\* the open_device command once DeviceManager::open_device has returned: an
\* error is returned as it is; otherwise the devices are scanned again, the
\* module of the type of the device found under the path is bound to the
\* path, and Ok is returned whether a device was found or not.
open_device_command(t) ==
    /\ dm[t].pc = "done"
    /\ dm[t].op = "open"
    /\ IF ~dm[t].ret.ok
       THEN /\ dm' = [dm EXCEPT ![t] = [@ EXCEPT !.pc = "returned"]]
            /\ UNCHANGED <<device_path, fido_device_path>>
       ELSE \E hid \in HidResults(plugged), ccid \in CcidResults(plugged) :
               LET devices == scan_devices(hid, ccid)
                   dev == find(devices, dm[t].path)
               IN  /\ dm' = [dm EXCEPT ![t] =
                                [@ EXCEPT !.pc = "returned",
                                          !.scans = Append(@, devices),
                                          !.ret = DevOk]]
                   /\ IF dev = <<>>
                      THEN UNCHANGED <<device_path, fido_device_path>>
                      ELSE IF dev[1].device_type = "PicoFido"
                           THEN /\ fido_device_path' = dm[t].path
                                /\ UNCHANGED device_path
                           ELSE /\ device_path' = dm[t].path
                                /\ UNCHANGED fido_device_path
    /\ UNCHANGED <<opened, lockHolder, plugged, mon, th, token_options, fi, codecVars>>

\* the result of the command is handed to the frontend
CommandReturn(t) ==
    /\ dm[t].pc = "returned"
    /\ dm' = [dm EXCEPT ![t] = IdleDm]
    /\ UNCHANGED <<opened, lockHolder, plugged, codecVars, fidoVars, hsmVars, mon>>

---------------------------------------------------------------------------
(* The hot-plug monitor (start_device_polling)                             *)
(*   previous_devices  the baseline list held by the polling thread        *)
(*   emitted           the payloads of the device-changed events, in order *)
(*   polls             the number of loop iterations made                  *)
(*   current, changed  the list scanned by the last iteration and what     *)
(*                     devices_changed said of it                          *)

MaxPolls == 3

\* three devices, so that the HID backend can list two tokens in either order
MonitorDevices ==
    AllDevices \cup {DeviceInfo("PicoFido", "hid-2")}

IdleMon ==
    [previous_devices |-> <<>>, emitted |-> <<>>, polls |-> 0,
     current |-> <<>>, changed |-> FALSE]

\* a variant that emits the event and keeps the old baseline
polling_iteration_keeps_baseline(m, current) ==
    IF devices_changed(m.previous_devices, current)
    THEN [m EXCEPT !.emitted = Append(@, current),
                   !.polls = @ + 1, !.current = current, !.changed = TRUE]
    ELSE [m EXCEPT !.polls = @ + 1, !.current = current, !.changed = FALSE]

\* the body of the loop once scan_devices has returned Ok(current)
polling_iteration(m, current) ==
    IF devices_changed(m.previous_devices, current)
    THEN [m EXCEPT !.emitted = Append(@, current), !.previous_devices = current,
                   !.polls = @ + 1, !.current = current, !.changed = TRUE]
    ELSE [m EXCEPT !.polls = @ + 1, !.current = current, !.changed = FALSE]

\* one iteration of the polling loop: sleep, scan, compare, emit
Poll ==
    /\ mon.polls < MaxPolls
    /\ \E hid \in HidResults(plugged), ccid \in CcidResults(plugged) :
          mon' = polling_iteration(mon, scan_devices(hid, ccid))
    /\ UNCHANGED <<dm, opened, lockHolder, plugged, codecVars, fidoVars, hsmVars>>

---------------------------------------------------------------------------
(* CTAP/CBOR codec (fido/cbor.rs)                                          *)
(*                                                                         *)
(* A CtapCommand is the record [variant, sub]; sub is "" for the variants  *)
(* without a sub-command.                                                  *)

CtapCommand(variant, sub) == [variant |-> variant, sub |-> sub]

ClientPinSubCommand == {"GetRetries", "GetKeyAgreement", "SetPin", "ChangePin", "GetPinToken"}
CredMgmtSubCommand == {"GetCredsMetadata", "EnumerateRPsBegin", "EnumerateRPsNext", "EnumerateCredentialsBegin", "EnumerateCredentialsNext", "DeleteCredential"}
AuthConfigSubCommand == {"EnableEnterpriseAttestation", "ToggleAlwaysUv", "SetMinPinLength"}

\* the name of a sub-command variant as the characters serde writes
VariantName(sub) ==
    CASE sub = "GetRetries" ->
           <<71, 101, 116, 82, 101, 116, 114, 105, 101, 115>>
      [] sub = "GetKeyAgreement" ->
           <<71, 101, 116, 75, 101, 121, 65, 103, 114, 101, 101, 109, 101, 110, 116>>
      [] sub = "SetPin" ->
           <<83, 101, 116, 80, 105, 110>>
      [] sub = "ChangePin" ->
           <<67, 104, 97, 110, 103, 101, 80, 105, 110>>
      [] sub = "GetPinToken" ->
           <<71, 101, 116, 80, 105, 110, 84, 111, 107, 101, 110>>
      [] sub = "GetCredsMetadata" ->
           <<71, 101, 116, 67, 114, 101, 100, 115, 77, 101, 116, 97, 100, 97, 116, 97>>
      [] sub = "EnumerateRPsBegin" ->
           <<69, 110, 117, 109, 101, 114, 97, 116, 101, 82, 80, 115, 66, 101, 103, 105, 110>>
      [] sub = "EnumerateRPsNext" ->
           <<69, 110, 117, 109, 101, 114, 97, 116, 101, 82, 80, 115, 78, 101, 120, 116>>
      [] sub = "EnumerateCredentialsBegin" ->
           <<69, 110, 117, 109, 101, 114, 97, 116, 101, 67, 114, 101, 100, 101, 110, 116, 105, 97, 108, 115, 66, 101, 103, 105, 110>>
      [] sub = "EnumerateCredentialsNext" ->
           <<69, 110, 117, 109, 101, 114, 97, 116, 101, 67, 114, 101, 100, 101, 110, 116, 105, 97, 108, 115, 78, 101, 120, 116>>
      [] sub = "DeleteCredential" ->
           <<68, 101, 108, 101, 116, 101, 67, 114, 101, 100, 101, 110, 116, 105, 97, 108>>
      [] sub = "EnableEnterpriseAttestation" ->
           <<69, 110, 97, 98, 108, 101, 69, 110, 116, 101, 114, 112, 114, 105, 115, 101, 65, 116, 116, 101, 115, 116, 97, 116, 105, 111, 110>>
      [] sub = "ToggleAlwaysUv" ->
           <<84, 111, 103, 103, 108, 101, 65, 108, 119, 97, 121, 115, 85, 118>>
      [] sub = "SetMinPinLength" ->
           <<83, 101, 116, 77, 105, 110, 80, 105, 110, 76, 101, 110, 103, 116, 104>>

\* serde_cbor::to_vec of a unit variant: the variant name as a CBOR text
\* string (major type 3; the length in the head byte below 24, else in a
\* second byte)
to_vec(sub) ==
    LET name == VariantName(sub)
    IN  IF Len(name) < 24 THEN <<96 + Len(name)>> \o name
        ELSE <<120, Len(name)>> \o name

\* a variant that sends the command byte alone for every command
encode_ctap_command_bare(cmd) ==
    CASE cmd.variant = "GetInfo" -> <<4>>
      [] cmd.variant = "MakeCredential" -> <<1>>
      [] cmd.variant = "GetAssertion" -> <<2>>
      [] cmd.variant = "Reset" -> <<7>>
      [] cmd.variant = "Selection" -> <<11>>
      [] cmd.variant = "ClientPin" -> <<6>>
      [] cmd.variant = "CredentialManagement" -> <<10>>
      [] cmd.variant = "AuthenticatorConfig" -> <<13>>

\* encode_ctap_command: the command byte, then the CBOR of the sub-command
encode_ctap_command(cmd) ==
    CASE cmd.variant = "GetInfo" -> <<4>>
      [] cmd.variant = "MakeCredential" -> <<1>>
      [] cmd.variant = "GetAssertion" -> <<2>>
      [] cmd.variant = "Reset" -> <<7>>
      [] cmd.variant = "Selection" -> <<11>>
      [] cmd.variant = "ClientPin" -> <<6>> \o to_vec(cmd.sub)
      [] cmd.variant = "CredentialManagement" -> <<10>> \o to_vec(cmd.sub)
      [] cmd.variant = "AuthenticatorConfig" -> <<13>> \o to_vec(cmd.sub)

\* serde_cbor::from_slice::<Value>: the slice must hold one data item and
\* nothing after it.  ItemEnd(d, i) is the index after the item that starts
\* at d[i], or 0 when there is no item there: a head byte serde_cbor does
\* not assign, a length that runs past the end, text that is not UTF-8.
Min(a, b) == IF a < b THEN a ELSE b

\* the big-endian number in the n bytes from d[i] on, capped at 65536
RECURSIVE HeadArgument(_, _, _, _)
HeadArgument(d, i, n, acc) ==
    IF n = 0 THEN acc
    ELSE HeadArgument(d, i + 1, n - 1, Min(256 * acc + d[i], 65536))

\* the bytes the head takes after the first one, by the low five bits
ArgumentBytes(ai) ==
    CASE ai < 24 -> 0
      [] ai = 24 -> 1
      [] ai = 25 -> 2
      [] ai = 26 -> 4
      [] ai = 27 -> 8
      [] OTHER -> 0

\* str::from_utf8 on one- and two-byte sequences
RECURSIVE IsUtf8(_)
IsUtf8(b) ==
    IF b = <<>> THEN TRUE
    ELSE IF b[1] < 128 THEN IsUtf8(Tail(b))
    ELSE IF b[1] >= 194 /\ b[1] <= 223 /\ Len(b) >= 2 /\ b[2] >= 128 /\ b[2] <= 191
         THEN IsUtf8(Tail(Tail(b)))
         ELSE FALSE

RECURSIVE ItemEnd(_, _)
RECURSIVE ItemsEnd(_, _, _)
RECURSIVE ChunksEnd(_, _, _)
RECURSIVE UntilBreak(_, _, _)

\* n items one after the other from d[i] on
ItemsEnd(d, i, n) ==
    IF n = 0 THEN i
    ELSE IF i > Len(d) THEN 0
    ELSE LET e == ItemEnd(d, i) IN IF e = 0 THEN 0 ELSE ItemsEnd(d, e, n - 1)

\* items from d[i] on up to the break byte 0xFF; a map needs an even number
UntilBreak(d, i, pairs) ==
    IF i > Len(d) THEN 0
    ELSE IF d[i] = 255 THEN i + 1
    ELSE LET e == ItemsEnd(d, i, IF pairs THEN 2 ELSE 1)
         IN  IF e = 0 THEN 0 ELSE UntilBreak(d, e, pairs)

\* the chunks of an indefinite string of major type mt up to the break byte
ChunksEnd(d, i, mt) ==
    IF i > Len(d) THEN 0
    ELSE IF d[i] = 255 THEN i + 1
    ELSE IF d[i] \div 32 # mt \/ d[i] % 32 > 27 THEN 0
    ELSE LET e == ItemEnd(d, i) IN IF e = 0 THEN 0 ELSE ChunksEnd(d, e, mt)

ItemEnd(d, i) ==
    IF i > Len(d) THEN 0
    ELSE
      LET mt == d[i] \div 32
          ai == d[i] % 32
          n == ArgumentBytes(ai)
          body == i + 1 + n
          arg == IF ai < 24 THEN ai ELSE HeadArgument(d, i + 1, n, 0)
      IN  IF ai >= 24 /\ ai <= 27 /\ body - 1 > Len(d) THEN 0
          ELSE CASE mt \in {0, 1} -> IF ai > 27 THEN 0 ELSE body
                 [] mt \in {2, 3} ->
                      IF ai = 31 THEN ChunksEnd(d, i + 1, mt)
                      ELSE IF ai > 27 \/ body - 1 + arg > Len(d) THEN 0
                      ELSE IF mt = 3 /\ ~IsUtf8(SubSeq(d, body, body - 1 + arg)) THEN 0
                      ELSE body + arg
                 [] mt = 4 ->
                      IF ai = 31 THEN UntilBreak(d, i + 1, FALSE)
                      ELSE IF ai > 27 \/ arg > Len(d) THEN 0
                      ELSE ItemsEnd(d, body, arg)
                 [] mt = 5 ->
                      IF ai = 31 THEN UntilBreak(d, i + 1, TRUE)
                      ELSE IF ai > 27 \/ arg > Len(d) THEN 0
                      ELSE ItemsEnd(d, body, 2 * arg)
                 [] mt = 6 -> IF ai > 27 THEN 0 ELSE ItemEnd(d, body)
                 [] OTHER ->
                      IF ai \in 20..23 THEN i + 1
                      ELSE IF ai \in 25..27 THEN body
                      ELSE 0

\* a variant that looks at the first item only and lets more bytes follow
from_slice_prefix(payload) == ItemEnd(payload, 1) # 0

from_slice(payload) == ItemEnd(payload, 1) = Len(payload) + 1

\* CborError::DecodingError; a is the status byte the message quotes
DecodingError(a, msg) == Err("DecodingError", a, 0, msg)

\* a variant that takes every reply with status 0x00 for a success
decode_ctap_response_status_only(data) ==
    IF data = <<>> THEN [ok |-> FALSE, err |-> DecodingError(0, "empty response")]
    ELSE IF data[1] # 0 THEN [ok |-> FALSE, err |-> DecodingError(data[1], "CTAP error code")]
    ELSE [ok |-> TRUE, err |-> NoError]

\* decode_ctap_response: Ok(CtapResponse::Success) or Err(DecodingError)
decode_ctap_response(data) ==
    IF data = <<>> THEN [ok |-> FALSE, err |-> DecodingError(0, "empty response")]
    ELSE IF data[1] # 0 THEN [ok |-> FALSE, err |-> DecodingError(data[1], "CTAP error code")]
    ELSE IF Len(data) = 1 THEN [ok |-> TRUE, err |-> NoError]
    ELSE IF ~from_slice(Tail(data)) THEN [ok |-> FALSE, err |-> DecodingError(0, "cbor")]
    ELSE [ok |-> TRUE, err |-> NoError]

\* FidoError values
CtapError(code) == Err("CtapError", code, 0, "")
FidoPinInvalid(n) == Err("PinInvalid", n, 0, "")
FidoPinLocked == Err("PinLocked", 0, 0, "")
PinLengthInvalid == Err("PinLengthInvalid", 0, 0, "")
FidoCommunicationError(msg) == Err("CommunicationError", 0, 0, msg)
FidoCborError(e) == Err("CborError", e.a, 0, e.msg)

\* a variant without the entry for 0x36
ctap_error_to_fido_error_short(code) ==
    CASE code = 49 -> FidoPinInvalid(0)
      [] code = 50 -> FidoPinLocked
      [] code = 51 -> PinLengthInvalid
      [] OTHER -> CtapError(code)

ctap_error_to_fido_error(code) ==
    CASE code = 49 -> FidoPinInvalid(0)
      [] code = 50 -> FidoPinLocked
      [] code = 51 -> PinLengthInvalid
      [] code = 54 -> FidoPinInvalid(0)
      [] OTHER -> CtapError(code)

---------------------------------------------------------------------------
(* FIDO command layer (fido/mod.rs)                                        *)
(*                                                                         *)
(* fi is the state of the FIDO operation called last:                      *)
(*   pc       idle | done                                                  *)
(*   call     the operation and its arguments                              *)
(*   sent     the buffers handed to send_ctap_command, in order            *)
(*   decoded  the buffers handed to decode_ctap_response, in order         *)
(*   ret      the value returned                                           *)
(*   stage    where the result was decided: validation | transport |       *)
(*            decode | reply                                               *)

FidoCallRec(op, pin, old_pin, id, length, secret, account, digits, words) ==
    [op |-> op, pin |-> pin, old_pin |-> old_pin, id |-> id, length |-> length,
     secret |-> secret, account |-> account, digits |-> digits, words |-> words]

NoFidoCall == FidoCallRec("none", <<>>, <<>>, <<>>, 0, <<>>, <<>>, 0, <<>>)

IdleFido ==
    [pc |-> "idle", call |-> NoFidoCall, sent |-> <<>>, decoded |-> <<>>,
     ret |-> NoResult, stage |-> "none"]

\* a variant that counts characters
fido_validate_pin_chars(pin) ==
    IF Len(pin) < 4 \/ Len(pin) > 63 THEN PinLengthInvalid ELSE NoError

\* FidoModuleImpl::validate_pin: 4 to 63 bytes of UTF-8
fido_validate_pin(pin) ==
    LET len == Len(as_bytes(pin))
    IN  IF len < 4 \/ len > 63 THEN PinLengthInvalid ELSE NoError

\* char::is_whitespace (the Unicode White_Space property)
is_whitespace(cp) ==
    cp \in (9..13) \cup {32, 133, 160, 5760, 8232, 8233, 8239, 8287, 12288}
               \cup (8192..8202)

\* word.trim().is_empty()
IsBlank(word) == \A i \in 1..Len(word) : is_whitespace(word[i])

\* the loop of restore_from_words over the words
NoBlankWord(words) ==
    IF \E i \in 1..Len(words) : IsBlank(words[i])
    THEN FidoCommunicationError("blank recovery word")
    ELSE NoError

Require(cond, e) == IF cond THEN NoError ELSE e

\* a variant in which add_oath_credential does not look at the digits
FidoChecksAnyDigits(c) ==
    CASE c.op = "add_oath_credential" ->
           <<Require(c.secret # <<>>, FidoCommunicationError("empty OATH secret")),
             Require(c.account # <<>>, FidoCommunicationError("empty OATH account"))>>
      [] c.op \in {"calculate_oath", "delete_oath_credential"} ->
           <<Require(c.id # <<>>, FidoCommunicationError("empty OATH credential id"))>>
      [] OTHER -> <<>>

\* a variant in which restore_from_words counts the words only
FidoChecksCountOnly(c) ==
    CASE c.op = "restore_from_words" ->
           <<fido_validate_pin(c.pin),
             Require(Len(c.words) = 24, FidoCommunicationError("24 recovery words needed"))>>
      [] OTHER -> <<>>

\* The checks each FIDO operation makes before it encodes its command, in
\* the order the code makes them.  change_pin checks its new PIN only.
FidoChecks(c) ==
    CASE c.op \in {"set_pin", "change_pin", "list_credentials",
                   "toggle_enterprise_attestation", "get_backup_words"} ->
           <<fido_validate_pin(c.pin)>>
      [] c.op = "delete_credential" ->
           <<fido_validate_pin(c.pin),
             Require(c.id # <<>>, FidoCommunicationError("empty credential id"))>>
      [] c.op = "set_min_pin_length" ->
           <<fido_validate_pin(c.pin),
             Require(c.length >= 4 /\ c.length <= 63, PinLengthInvalid)>>
      [] c.op = "add_oath_credential" ->
           <<Require(c.secret # <<>>, FidoCommunicationError("empty OATH secret")),
             Require(c.account # <<>>, FidoCommunicationError("empty OATH account")),
             Require(c.digits \in {6, 8}, FidoCommunicationError("digits must be 6 or 8"))>>
      [] c.op \in {"calculate_oath", "delete_oath_credential"} ->
           <<Require(c.id # <<>>, FidoCommunicationError("empty OATH credential id"))>>
      [] c.op = "restore_from_words" ->
           <<fido_validate_pin(c.pin),
             Require(Len(c.words) = 24, FidoCommunicationError("24 recovery words needed")),
             NoBlankWord(c.words)>>
      [] OTHER -> <<>>

\* the CTAP command each operation encodes
FidoCommand(c) ==
    CASE c.op = "get_pin_retries" -> CtapCommand("ClientPin", "GetRetries")
      [] c.op = "set_pin" -> CtapCommand("ClientPin", "SetPin")
      [] c.op = "change_pin" -> CtapCommand("ClientPin", "ChangePin")
      [] c.op = "list_credentials" ->
           CtapCommand("CredentialManagement", "EnumerateRPsBegin")
      [] c.op = "delete_credential" ->
           CtapCommand("CredentialManagement", "DeleteCredential")
      [] c.op = "get_info" -> CtapCommand("GetInfo", "")
      [] c.op \in {"set_min_pin_length", "set_led_config"} ->
           CtapCommand("AuthenticatorConfig", "SetMinPinLength")
      [] c.op = "toggle_enterprise_attestation" ->
           CtapCommand("AuthenticatorConfig", "EnableEnterpriseAttestation")
      [] c.op = "reset_device" -> CtapCommand("Reset", "")
      [] OTHER -> CtapCommand("Selection", "")

\* a variant with a transport that answers 0x00 once a device is bound
send_ctap_command_answering(path, data) ==
    IF path = ""
    THEN [ok |-> FALSE, bytes |-> <<>>, err |-> FidoCommunicationError("no device selected")]
    ELSE [ok |-> TRUE, bytes |-> <<0>>, err |-> NoError]

\* send_ctap_command: Err in both branches, the CTAPHID transport is not
\* implemented
send_ctap_command(path, data) ==
    IF path = ""
    THEN [ok |-> FALSE, bytes |-> <<>>, err |-> FidoCommunicationError("no device selected")]
    ELSE [ok |-> FALSE, bytes |-> <<>>,
          err |-> FidoCommunicationError("CTAP HID not implemented")]

\* the operations that return a value of their own whatever was decoded
IgnoresReply == {"list_oath_credentials", "calculate_oath", "get_backup_words"}
\* the operations whose match has an arm for CtapResponse::Success
AcceptsSuccess ==
    {"set_pin", "change_pin", "delete_credential", "set_min_pin_length",
     "toggle_enterprise_attestation", "set_led_config", "add_oath_credential",
     "delete_oath_credential", "restore_from_words", "reset_device"}

\* What an operation makes of the bytes send_ctap_command returned: the
\* decoding error wrapped in FidoError::CborError, or the arm of its match
\* for the response decoded (decode_ctap_response yields Success only).
FidoReply(op, response_bytes) ==
    LET response == decode_ctap_response(response_bytes)
    IN  IF ~response.ok
        THEN [ok |-> FALSE, err |-> FidoCborError(response.err), val |-> <<>>,
              stage |-> "decode"]
        ELSE IF op \in IgnoresReply \cup AcceptsSuccess
        THEN [ok |-> TRUE, err |-> NoError, val |-> <<>>, stage |-> "reply"]
        ELSE [ok |-> FALSE, err |-> FidoCommunicationError("unexpected response"),
              val |-> <<>>, stage |-> "reply"]

\* A FIDO operation from call to return: its checks, the encoding of its
\* command, send_ctap_command and, if that returned bytes, their decoding.
FidoOperation(c, path) ==
    LET v == FirstError(FidoChecks(c))
        encoded == encode_ctap_command(FidoCommand(c))
        r == send_ctap_command(path, encoded)
        done == [IdleFido EXCEPT !.pc = "done", !.call = c]
    IN  IF v # NoError
        THEN [done EXCEPT !.ret = Failure(v), !.stage = "validation"]
        ELSE IF ~r.ok
        THEN [done EXCEPT !.sent = <<encoded>>, !.ret = Failure(r.err),
                          !.stage = "transport"]
        ELSE LET out == FidoReply(c.op, r.bytes)
             IN  [done EXCEPT !.sent = <<encoded>>, !.decoded = <<r.bytes>>,
                              !.ret = [ok |-> out.ok, err |-> out.err, val |-> out.val],
                              !.stage = out.stage]

FidoCall(c) ==
    /\ fi.pc = "idle"
    /\ fi' = FidoOperation(c, fido_device_path)
    /\ UNCHANGED <<fido_device_path, codecVars, hsmVars, devVars>>

FidoReturn ==
    /\ fi.pc = "done"
    /\ fi' = IdleFido
    /\ UNCHANGED <<fido_device_path, codecVars, hsmVars, devVars>>

\* FidoModuleImpl::set_device_path, called by the open_device command
fido_set_device_path(path) ==
    /\ fido_device_path' = path
    /\ UNCHANGED <<fi, codecVars, hsmVars, devVars>>

---------------------------------------------------------------------------
(* devices_changed called on lists drawn by the initial state             *)

MaxListLen == 3

\* two paths, each as a FIDO token without serial and as an HSM token with
\* a serial and another firmware version
ListedDevices ==
    {[device_type |-> "PicoFido", path |-> p, serial |-> "", firmware_version |-> "1.0"] :
         p \in {"/dev/hid0", "/dev/reader0"}}
        \cup {[device_type |-> "PicoHsm", path |-> p, serial |-> "SN1",
                firmware_version |-> "2.0"] : p \in {"/dev/hid0", "/dev/reader0"}}

DeviceLists == SeqsUpTo(ListedDevices, MaxListLen)

InitChangedCalls ==
    {[CodecCall("devices_changed", DefaultCmd, <<>>, 0, 0)
         EXCEPT !.previous = previous, !.current = current] :
         previous \in DeviceLists, current \in DeviceLists}

DoDevicesChanged ==
    /\ cx.fn = "devices_changed" /\ ~cx.done
    /\ cx' = [cx EXCEPT !.done = TRUE,
                        !.changed = devices_changed(cx.previous, cx.current)]
    /\ UNCHANGED <<hsmVars, devVars, fidoVars>>

---------------------------------------------------------------------------
(* Inputs of the HSM operations *)

Digits(n) == Repeat(49, n)          \* n times '1'
Accented(n) == Repeat(233, n)       \* n times U+00E9, two bytes each

\* PINs around the limits 6 and 16, single-byte and two-byte characters
PinSamples == {<<>>, Digits(5), Digits(6), Digits(16), Digits(17), Accented(3), Accented(9)}

HexUpper == <<48, 49, 50, 51, 52, 53, 54, 55, 56, 57, 65, 66, 67, 68, 69, 70>>
HexLower == <<48, 49, 50, 51, 52, 53, 54, 55, 56, 57, 97, 98, 99, 100, 101, 102>>

\* SO-PINs: 16 hex digits in either case, 15 and 17 hex digits, a non-hex
\* character among 16, and 16 bytes that are 8 two-byte characters
SoPinSamples ==
    {<<>>, HexUpper, HexLower, Take(HexUpper, 15), Append(HexUpper, 48),
     Append(Take(HexUpper, 15), 71), Accented(8)}

\* validate_pin and validate_so_pin called on their own: texts of up to
\* MaxTextLen characters mixing one-byte and two-byte characters, texts of
\* three-byte characters, hex strings of every length in either case, and
\* 16 hex digits with one character replaced by a neighbour of the hex ranges
MaxTextLen == 18
Wide(n) == Repeat(20013, n)         \* n times U+4E2D, three bytes each
NonHex == {32, 47, 58, 64, 71, 96, 103, 233}

ValidateTexts ==
    UNION {{Accented(k) \o Digits(n - k) : k \in 0..n} : n \in 0..MaxTextLen}
        \cup {Wide(n) : n \in 1..6}
        \cup {Take(HexUpper \o HexLower, n) : n \in 0..MaxTextLen}
        \cup {Take(HexLower \o HexUpper, n) : n \in 0..MaxTextLen}
        \cup {[HexLower EXCEPT ![i] = c] : i \in 1..16, c \in NonHex}

InitValidateCalls ==
    {[CodecCall(fn, DefaultCmd, <<>>, 0, 0) EXCEPT !.text = text] :
         fn \in {"validate_pin", "validate_so_pin"}, text \in ValidateTexts}

DoValidatePin ==
    /\ cx.fn = "validate_pin" /\ ~cx.done
    /\ cx' = [cx EXCEPT !.done = TRUE, !.err = validate_pin(cx.text)]
    /\ UNCHANGED <<hsmVars, devVars, fidoVars>>

DoValidateSoPin ==
    /\ cx.fn = "validate_so_pin" /\ ~cx.done
    /\ cx' = [cx EXCEPT !.done = TRUE, !.err = validate_so_pin(cx.text)]
    /\ UNCHANGED <<hsmVars, devVars, fidoVars>>

\* FIDO PINs around the limits 4 and 63: one-byte characters, and two-byte
\* characters whose count and byte length fall on different sides of a limit
FidoPinSamples ==
    {<<>>, Digits(3), Digits(4), Digits(63), Digits(64), Accented(2), Accented(32)}

\* recovery word lists: 24 words, 23, 25, none, and 24 with one blank word
\* (empty, spaces and tabs, an ideographic space) in the first, a middle or
\* the last place
Word == <<119, 111, 114, 100>>
BlankWords == {<<>>, <<32>>, <<32, 9>>, <<12288>>}
WordLists ==
    {Repeat(Word, n) : n \in {0, 23, 24, 25}}
        \cup {[Repeat(Word, 24) EXCEPT ![i] = b] : i \in {1, 12, 24}, b \in BlankWords}
        \cup {[Repeat(Word, 24) EXCEPT ![2] = <<32, 119>>]}

FidoOp0(op) == FidoCallRec(op, <<>>, <<>>, <<>>, 0, <<>>, <<>>, 0, <<>>)

FidoCalls ==
    {FidoOp0(op) : op \in {"get_pin_retries", "get_info", "set_led_config",
                           "list_oath_credentials", "reset_device"}}
    \cup {[FidoOp0(op) EXCEPT !.pin = p] :
             op \in {"set_pin", "list_credentials", "toggle_enterprise_attestation",
                     "get_backup_words"},
             p \in FidoPinSamples}
    \cup {[FidoOp0("change_pin") EXCEPT !.old_pin = o, !.pin = p] :
             o \in FidoPinSamples, p \in FidoPinSamples}
    \cup {[FidoOp0("delete_credential") EXCEPT !.pin = p, !.id = i] :
             p \in FidoPinSamples, i \in {<<>>, <<1>>}}
    \cup {[FidoOp0("set_min_pin_length") EXCEPT !.pin = p, !.length = n] :
             p \in FidoPinSamples, n \in {0, 3, 4, 63, 64, 255}}
    \cup {[FidoOp0("add_oath_credential") EXCEPT !.secret = k, !.account = a, !.digits = n] :
             k \in {<<>>, <<1>>}, a \in {<<>>, <<97>>}, n \in {0, 6, 7, 8, 10}}
    \cup {[FidoOp0(op) EXCEPT !.id = i] :
             op \in {"calculate_oath", "delete_oath_credential"}, i \in {<<>>, <<97>>}}
    \cup {[FidoOp0("restore_from_words") EXCEPT !.pin = p, !.words = w] :
             p \in FidoPinSamples, w \in WordLists}

\* FidoModuleImpl::validate_pin called on its own: texts of up to
\* MaxFidoPinLen characters of which none, one, half or all take two bytes
MaxFidoPinLen == 65
FidoPinTexts ==
    UNION {{Accented(k) \o Digits(n - k) : k \in {0, Min(1, n), n \div 2, n}} :
              n \in 0..MaxFidoPinLen}

InitFidoPinCalls ==
    {[CodecCall("fido_validate_pin", DefaultCmd, <<>>, 0, 0) EXCEPT !.text = text] :
         text \in FidoPinTexts}

DoFidoValidatePin ==
    /\ cx.fn = "fido_validate_pin" /\ ~cx.done
    /\ cx' = [cx EXCEPT !.done = TRUE, !.err = fido_validate_pin(cx.text)]
    /\ UNCHANGED <<hsmVars, devVars, fidoVars>>

\* The CTAP codec called on its own: every command, replies made of a status
\* byte and a payload of up to MaxPayloadLen bytes drawn from CborBytes,
\* every status code, and the reply handling of every operation.
MaxPayloadLen == 3

\* head bytes of each major type, a reserved head (0x1C), a continuation
\* byte (0x80, also the empty array) and the break byte
CborBytes == {0, 24, 28, 65, 97, 128, 129, 159, 161, 192, 246, 255}

CtapCommands ==
    {CtapCommand(v, "") :
        v \in {"GetInfo", "MakeCredential", "GetAssertion", "Reset", "Selection"}}
        \cup {CtapCommand("ClientPin", sub) : sub \in ClientPinSubCommand}
        \cup {CtapCommand("CredentialManagement", sub) : sub \in CredMgmtSubCommand}
        \cup {CtapCommand("AuthenticatorConfig", sub) : sub \in AuthConfigSubCommand}

CtapReplies ==
    {<<>>}
        \cup {<<0>> \o payload : payload \in SeqsUpTo(CborBytes, MaxPayloadLen)}
        \cup {<<status>> \o payload :
                 status \in 1..255, payload \in {<<>>, <<128>>, <<255>>}}

FidoOps ==
    {"get_pin_retries", "set_pin", "change_pin", "list_credentials",
     "delete_credential", "get_info", "set_min_pin_length",
     "toggle_enterprise_attestation", "set_led_config", "list_oath_credentials",
     "add_oath_credential", "calculate_oath", "delete_oath_credential",
     "get_backup_words", "restore_from_words", "reset_device"}

StatusSamples == {1, 49, 50, 51, 54, 153}

InitCtapCalls ==
    {CodecCall("encode_ctap_command", c, <<>>, 0, 0) : c \in CtapCommands}
        \cup {CodecCall("decode_ctap_response", DefaultCmd, r, 0, 0) : r \in CtapReplies}
        \cup {CodecCall("ctap_error_to_fido_error", DefaultCmd, <<>>, code, 0) :
                 code \in Byte}
        \cup {CodecCall("FidoReply", FidoOp0(op), r, 0, 0) :
                 op \in FidoOps,
                 r \in {<<>>, <<0>>, <<0, 128>>, <<0, 255>>}
                          \cup {<<status>> : status \in StatusSamples}}

DoEncodeCtapCommand ==
    /\ cx.fn = "encode_ctap_command" /\ ~cx.done
    /\ cx' = [cx EXCEPT !.done = TRUE, !.enc = encode_ctap_command(cx.cmd)]
    /\ UNCHANGED <<hsmVars, devVars, fidoVars>>

DoDecodeCtapResponse ==
    /\ cx.fn = "decode_ctap_response" /\ ~cx.done
    /\ cx' = [cx EXCEPT !.done = TRUE, !.dec = decode_ctap_response(cx.raw)]
    /\ UNCHANGED <<hsmVars, devVars, fidoVars>>

DoCtapErrorToFidoError ==
    /\ cx.fn = "ctap_error_to_fido_error" /\ ~cx.done
    /\ cx' = [cx EXCEPT !.done = TRUE, !.err = ctap_error_to_fido_error(cx.sw1)]
    /\ UNCHANGED <<hsmVars, devVars, fidoVars>>

\* the part of an operation that follows send_ctap_command, applied to the
\* bytes of a reply
DoFidoReply ==
    /\ cx.fn = "FidoReply" /\ ~cx.done
    /\ cx' = [cx EXCEPT !.done = TRUE, !.dec = FidoReply(cx.cmd.op, cx.raw)]
    /\ UNCHANGED <<hsmVars, devVars, fidoVars>>

PayloadSamples == {<<>>, <<48, 130>>}
PasswordSamples == {<<>>, <<112, 119>>}

Op0(op) == HsmCallRec(op, <<>>, <<>>, <<>>, <<>>, 0, "", 1, <<>>, <<>>, "")
OpPin(op, pin) == [Op0(op) EXCEPT !.pin = pin]

HsmCalls ==
    {[OpPin("initialize", p) EXCEPT !.so_pin = so] : p \in PinSamples, so \in SoPinSamples}
    \cup {OpPin(op, p) :
             op \in {"verify_pin", "list_keys", "list_certificates", "wrap_key"},
             p \in PinSamples}
    \cup {[OpPin("change_pin", p) EXCEPT !.new_pin = q] : p \in PinSamples, q \in PinSamples}
    \cup {[Op0("change_so_pin") EXCEPT !.so_pin = so, !.new_so_pin = so2] :
             so \in SoPinSamples, so2 \in SoPinSamples}
    \cup {[Op0("unblock_pin") EXCEPT !.so_pin = so, !.new_pin = q] :
             so \in SoPinSamples, q \in PinSamples}
    \cup {[OpPin("generate_rsa_key", p) EXCEPT !.bits = b] :
             p \in PinSamples, b \in RsaBits \cup {512, 8192}}
    \cup {[OpPin("generate_ec_key", p) EXCEPT !.curve = c] :
             p \in PinSamples, c \in EcCurves \cup {"invalid_curve"}}
    \cup {[OpPin("generate_aes_key", p) EXCEPT !.bits = b] :
             p \in PinSamples, b \in AesBits \cup {64, 512}}
    \cup {[OpPin("delete_key", p) EXCEPT !.key_type = k] :
             p \in PinSamples, k \in {"PrivateKey", "PublicKey", "SecretKey", "Certificate"}}
    \cup {[OpPin(op, p) EXCEPT !.data = d] :
             op \in {"import_certificate", "unwrap_key"}, p \in PinSamples,
             d \in PayloadSamples}
    \cup {[Op0("export_certificate") EXCEPT !.id = i] : i \in {1, 2}}
    \cup {Op0(op) : op \in SecureLockOps}
    \cup {[Op0("create_dkek_share") EXCEPT !.password = w] : w \in PasswordSamples}
    \cup {[Op0("import_dkek_share") EXCEPT !.data = d, !.password = w] :
             d \in PayloadSamples, w \in PasswordSamples}

\* What the token may answer in the operation-level specification: success
\* with and without data, more data pending, the status words with a meaning
\* of their own, an unknown status word, and truncated replies.
BasicReplies ==
    {<<144, 0>>, <<206, 1, 144, 0>>, <<97, 2>>, <<99, 194>>, <<105, 131>>,
     <<106, 130>>, <<111, 0>>, <<>>, <<144>>}

\* What the token may answer to get_device_info: success without data, a
\* SELECT reply with the version 4.2 under tag 0x85, replies of 15, 16 and
\* 20 data bytes (the token's memory reply holds five counters), a reply
\* cut short by 61 10, and an unknown status word.
Counters == <<0, 1, 2, 3,  4, 5, 6, 7,  200, 9, 10, 11,  0, 0, 1, 44,  255, 255, 255, 255>>
InfoReplies ==
    {<<144, 0>>, <<133, 5, 0, 1, 255, 4, 2, 144, 0>>, Take(Counters, 15) \o <<144, 0>>,
     Take(Counters, 16) \o <<144, 0>>, Counters \o <<144, 0>>,
     Take(Counters, 12) \o <<97, 16>>, <<111, 0>>}

\* What the token may answer in the specifications of transmit_raw alone:
\* every byte string up to MaxReplyLen over 0x61 and 0x90, and replies with
\* other data and status bytes.
MaxReplyLen == 3
TransmitReplies ==
    SeqsUpTo({97, 144}, MaxReplyLen)
        \cup {<<144, 0>>, <<5, 144, 0>>, <<97, 0>>, <<5, 97, 5>>}

---------------------------------------------------------------------------
(* Specifications *)

\* the record of the monitor with the bookkeeping no program variable holds
\* cut down: of the events only the last one, and the count of iterations
\* no further than MaxPolls
Recent(m) ==
    [m EXCEPT !.emitted = IF Len(@) > 1 THEN <<@[Len(@)]>> ELSE @,
              !.polls = IF @ > MaxPolls THEN MaxPolls ELSE @]

\* one iteration of the polling loop, which never ends
PollOn ==
    /\ \E hid \in HidResults(plugged), ccid \in CcidResults(plugged) :
          mon' = Recent(polling_iteration(mon, scan_devices(hid, ccid)))
    /\ UNCHANGED <<dm, opened, lockHolder, plugged, codecVars, fidoVars, hsmVars>>

\* lib.rs run(): both modules are built with an empty device path, the
\* device manager with an empty opened set; no call is in progress.
InitHsmIdle ==
    /\ th = [t \in Threads |-> IdleThread]
    /\ device_path = ""
    /\ token_options = 0

InitFidoIdle ==
    /\ fi = IdleFido
    /\ fido_device_path = ""

InitDevIdle ==
    /\ dm = [t \in Threads |-> IdleDm]
    /\ opened = {}
    /\ lockHolder = 0
    /\ plugged = {}
    /\ mon = IdleMon

\* The codec functions, each applied to an input drawn from the bounded sets.
InitCodec ==
    /\ cx \in InitCodecCalls
    /\ InitHsmIdle
    /\ InitDevIdle
    /\ InitFidoIdle

NextCodec ==
    \/ DoStatusToError
    \/ DoEncodeApdu
    \/ DoDecodeApduResponse

SpecCodec == InitCodec /\ [][NextCodec]_vars

\* The HSM operations, called one after the other by thread 1, while the
\* open_device command may bind the module to a reader at any time.
InitHsm ==
    /\ cx = CodecIdle
    /\ InitHsmIdle
    /\ InitDevIdle
    /\ InitFidoIdle

NextHsm ==
    \/ \E c \in HsmCalls : HsmCall(1, c)
    \/ HsmReturn(1)
    \/ set_device_path("reader-A")
    \/ connect_card(1)
    \/ TransmitInitial(1, BasicReplies, TRUE)
    \/ TransmitChain(1, BasicReplies, TRUE)
    \/ TransmitReturn(1)
    \/ select_hsm_applet(1)
    \/ execute_apdu(1)

SpecHsm == InitHsm /\ [][NextHsm]_vars

\* get_device_info, called again and again by thread 1 on reader-A
InitInfo ==
    /\ cx = CodecIdle
    /\ th = [t \in Threads |-> IdleThread]
    /\ device_path = "reader-A"
    /\ token_options = 0
    /\ InitDevIdle
    /\ InitFidoIdle

NextInfo ==
    \/ HsmCall(1, Op0("get_device_info"))
    \/ HsmReturn(1)
    \/ connect_card(1)
    \/ TransmitInitial(1, InfoReplies, TRUE)
    \/ TransmitChain(1, InfoReplies, TRUE)
    \/ TransmitReturn(1)
    \/ select_hsm_applet(1)
    \/ execute_apdu(1)

SpecInfo == InitInfo /\ [][NextInfo]_vars

\* get_device_info next to operations of one exchange (verify_pin,
\* change_pin, export_certificate) and of two (list_keys), started before a
\* device is selected, against a token that may
\* fail or answer anything of BasicReplies at every transmit.
MixedCalls ==
    {Op0("get_device_info"), OpPin("verify_pin", Digits(6)),
     [OpPin("change_pin", Digits(6)) EXCEPT !.new_pin = Digits(16)],
     OpPin("list_keys", Digits(6)), [Op0("export_certificate") EXCEPT !.id = 1]}

NextMixed ==
    \/ \E c \in MixedCalls : HsmCall(1, c)
    \/ HsmReturn(1)
    \/ set_device_path("reader-A")
    \/ connect_card(1)
    \/ TransmitInitial(1, BasicReplies, TRUE)
    \/ TransmitChain(1, BasicReplies, TRUE)
    \/ TransmitReturn(1)
    \/ select_hsm_applet(1)
    \/ execute_apdu(1)

SpecMixed == InitHsm /\ [][NextMixed]_vars

\* transmit_raw alone: thread 1 has connected to reader-A inside
\* export_certificate(1) and enters transmit_raw with the SELECT command.
AtTransmitEntry ==
    [IdleThread EXCEPT
        !.call = Op0("export_certificate"), !.pc = "select", !.xi = 1, !.conn = 1,
        !.tx = StartTx(encode_apdu(SelectCmd)),
        !.log = <<Event("establish", "", 0, <<>>, TRUE),
                  Event("connect", "reader-A", 1, <<>>, TRUE)>>]

InitTransmit ==
    /\ cx = CodecIdle
    /\ th = [t \in Threads |-> IF t = 1 THEN AtTransmitEntry ELSE IdleThread]
    /\ device_path = "reader-A"
    /\ token_options = 0
    /\ InitDevIdle
    /\ InitFidoIdle

NextTransmit ==
    \/ TransmitInitial(1, TransmitReplies, TRUE)
    \/ TransmitChain(1, TransmitReplies, TRUE)
    \/ TransmitReturn(1)

SpecTransmit == InitTransmit /\ [][NextTransmit]_vars

\* An operation of one exchange and one of two, while the open_device
\* command binds the module to one of two readers at any time, also between
\* the exchanges of an operation
RebindCalls == {OpPin("verify_pin", Digits(6)), OpPin("list_keys", Digits(6))}

NextRebind ==
    \/ \E c \in RebindCalls : HsmCall(1, c)
    \/ HsmReturn(1)
    \/ \E path \in {"reader-A", "reader-B"} : set_device_path(path)
    \/ connect_card(1)
    \/ TransmitInitial(1, BasicReplies, TRUE)
    \/ TransmitChain(1, BasicReplies, TRUE)
    \/ TransmitReturn(1)
    \/ select_hsm_applet(1)
    \/ execute_apdu(1)

SpecRebind == InitInfo /\ [][NextRebind]_vars

\* get_options and set_option, called by two threads on a token that holds
\* any of the four settings of the two options
OptionCalls ==
    {OptionCall("get_options", "none", FALSE)}
        \cup {OptionCall("set_option", o, e) :
                 o \in {"PressToConfirm", "KeyUsageCounter"}, e \in BOOLEAN}

InitOptions ==
    /\ cx = CodecIdle
    /\ th = [t \in Threads |-> IdleThread]
    /\ device_path = "reader-A"
    /\ token_options \in 0..3
    /\ InitDevIdle
    /\ InitFidoIdle

NextOptions ==
    \/ \E t \in Threads, c \in OptionCalls : options_call(t, c)
    \/ \E t \in Threads : get_options(t)
    \/ \E t \in Threads : set_option(t)
    \/ \E t \in Threads : HsmReturn(t)

SpecOptions == InitOptions /\ [][NextOptions]_vars

\* transmit_raw alone and without the bookkeeping of what was sent, which no
\* program variable holds: the thread keeps running and the token keeps
\* answering, so a step that can be taken is taken.
NextTransmitLive ==
    \/ TransmitInitial(1, TransmitReplies, FALSE)
    \/ TransmitChain(1, TransmitReplies, FALSE)
    \/ TransmitReturn(1)

LiveTransmit == InitTransmit /\ [][NextTransmitLive]_vars /\ WF_vars(NextTransmitLive)

\* devices_changed applied to every pair of device lists
InitChanged ==
    /\ cx \in InitChangedCalls
    /\ InitHsmIdle
    /\ InitDevIdle
    /\ InitFidoIdle

NextChanged == DoDevicesChanged

SpecChanged == InitChanged /\ [][NextChanged]_vars

\* validate_pin and validate_so_pin of the HSM module applied to every text
\* of ValidateTexts, validate_pin of the FIDO module to those of FidoPinTexts
InitValidate ==
    /\ cx \in InitValidateCalls \cup InitFidoPinCalls
    /\ InitHsmIdle
    /\ InitDevIdle
    /\ InitFidoIdle

NextValidate ==
    \/ DoValidatePin
    \/ DoValidateSoPin
    \/ DoFidoValidatePin

SpecValidate == InitValidate /\ [][NextValidate]_vars

\* The device manager: two threads open and close devices while devices are
\* plugged in and pulled out.
InitDev ==
    /\ cx = CodecIdle
    /\ InitHsmIdle
    /\ InitDevIdle
    /\ InitFidoIdle

NextDev ==
    \/ \E d \in AllDevices : Plug(d)
    \/ \E d \in AllDevices : Unplug(d)
    \/ \E t \in Threads, path \in DevicePaths : open_device_lock(t, path)
    \/ \E t \in Threads : open_device_scan(t)
    \/ \E t \in Threads, path \in DevicePaths : close_device(t, path)
    \/ \E t \in Threads : scan_devices_call(t)
    \/ \E t \in Threads : DmReturn(t)

SpecDev == InitDev /\ [][NextDev]_vars

\* The device manager next to the hot-plug monitor: two threads open, close
\* and scan while the polling thread runs; the FIDO token is connected, the
\* HSM token is not.
InitConcurrent ==
    /\ cx = CodecIdle
    /\ InitHsmIdle
    /\ InitFidoIdle
    /\ dm = [t \in Threads |-> IdleDm]
    /\ opened = {}
    /\ lockHolder = 0
    /\ plugged = {DeviceInfo("PicoFido", "hid-1")}
    /\ mon = IdleMon

NextConcurrent ==
    \/ \E t \in Threads, path \in DevicePaths : open_device_lock(t, path)
    \/ \E t \in Threads : open_device_scan(t)
    \/ \E t \in Threads, path \in DevicePaths : close_device(t, path)
    \/ \E t \in Threads : scan_devices_call(t)
    \/ \E t \in Threads : DmReturn(t)
    \/ Poll

SpecConcurrent == InitConcurrent /\ [][NextConcurrent]_vars

\* The open_device command, called by two threads while devices are plugged
\* in and pulled out.
NextCommand ==
    \/ \E d \in AllDevices : Plug(d)
    \/ \E d \in AllDevices : Unplug(d)
    \/ \E t \in Threads, path \in DevicePaths : open_device_lock(t, path)
    \/ \E t \in Threads : open_device_scan(t)
    \/ \E t \in Threads : open_device_command(t)
    \/ \E t \in Threads : CommandReturn(t)

SpecCommand == InitDev /\ [][NextCommand]_vars

\* The FIDO operations, called one after the other, while the open_device
\* command may bind the module to a device at any time.
InitFido ==
    /\ cx = CodecIdle
    /\ InitHsmIdle
    /\ InitDevIdle
    /\ InitFidoIdle

NextFido ==
    \/ \E c \in FidoCalls : FidoCall(c)
    \/ FidoReturn
    \/ fido_set_device_path("hid-1")

SpecFido == InitFido /\ [][NextFido]_vars

\* The CTAP codec functions, each applied to an input drawn from the bounded
\* sets.
InitCtap ==
    /\ cx \in InitCtapCalls
    /\ InitHsmIdle
    /\ InitDevIdle
    /\ InitFidoIdle

NextCtap ==
    \/ DoEncodeCtapCommand
    \/ DoDecodeCtapResponse
    \/ DoCtapErrorToFidoError
    \/ DoFidoReply

SpecCtap == InitCtap /\ [][NextCtap]_vars

\* The hot-plug monitor: the polling thread runs while devices are plugged in
\* and pulled out.
NextMonitor ==
    \/ \E d \in MonitorDevices : Plug(d)
    \/ \E d \in MonitorDevices : Unplug(d)
    \/ Poll

SpecMonitor == InitDev /\ [][NextMonitor]_vars

\* The hot-plug monitor running for ever: the polling thread is never
\* starved, so an iteration that changes anything is eventually made.
\* Devices may be connected when the thread starts.
InitMonitorLive ==
    /\ cx = CodecIdle
    /\ InitHsmIdle
    /\ InitFidoIdle
    /\ dm = [t \in Threads |-> IdleDm]
    /\ opened = {}
    /\ lockHolder = 0
    /\ plugged \in SUBSET MonitorDevices
    /\ mon = IdleMon

NextMonitorLive ==
    \/ \E d \in MonitorDevices : Plug(d)
    \/ \E d \in MonitorDevices : Unplug(d)
    \/ PollOn

LiveMonitor == InitMonitorLive /\ [][NextMonitorLive]_vars /\ WF_vars(PollOn)

---------------------------------------------------------------------------
(* Properties of the APDU codec, checked under SpecCodec                   *)

\* the codec function fn has been applied to the drawn input
Applied(fn) == cx.fn = fn /\ cx.done

\* C6: status_to_error maps every (sw1, sw2) of 0..255 x 0..255, in this
\* priority order: (0x90,0x00) and (0x61,any) to none; (0x63, high nibble
\* 0xC) to PinInvalid(sw2 & 0x0F); (0x69,0x83) to PinLocked; (0x69,0x82) to
\* SoPinInvalid; (0x6A,0x82) and (0x6A,0x88) to KeyNotFound; every other pair
\* to StatusError(sw1, sw2).  The result is none iff the pair is (0x90,0x00)
\* or sw1 = 0x61.
C6_StatusMapping ==
    Applied("status_to_error") =>
        LET sw1 == cx.sw1
            sw2 == cx.sw2
            none == (sw1 = 144 /\ sw2 = 0) \/ sw1 = 97
            pin == ~none /\ sw1 = 99 /\ sw2 \in 192..207
            locked == ~none /\ ~pin /\ sw1 = 105 /\ sw2 = 131
            sopin == ~none /\ ~pin /\ ~locked /\ sw1 = 105 /\ sw2 = 130
            nokey == ~none /\ ~pin /\ ~locked /\ ~sopin /\ sw1 = 106 /\ sw2 \in {130, 136}
            other == ~(none \/ pin \/ locked \/ sopin \/ nokey)
        IN  /\ none => cx.err = NoError
            /\ pin => cx.err = PinInvalid(sw2 - 192)
            /\ locked => cx.err = PinLocked
            /\ sopin => cx.err = SoPinInvalid
            /\ nokey => cx.err.kind = "KeyNotFound"
            /\ other => cx.err = StatusError(sw1, sw2)
            /\ (cx.err = NoError) <=> none

\* status 63 C3 was mapped to PinInvalid with 3 retries left
C6_Witness ==
    /\ Applied("status_to_error")
    /\ cx.sw1 = 99 /\ cx.sw2 = 195
    /\ cx.err = PinInvalid(3)

\* the fields of the drawn command
CmdData == IF IsSome(cx.cmd.data) THEN Unwrap(cx.cmd.data) ELSE <<>>
CmdHasLe == IsSome(cx.cmd.le)
CmdLe == IF IsSome(cx.cmd.le) THEN Unwrap(cx.cmd.le) ELSE 0
CmdHeader == <<cx.cmd.cla, cx.cmd.ins, cx.cmd.p1, cx.cmd.p2>>
CmdIsLong == Len(CmdData) > 255 \/ (CmdHasLe /\ CmdLe > 256)

\* the two ISO 7816-4 layouts
ShortLayout ==
    CmdHeader
        \o (IF CmdData = <<>> THEN <<>> ELSE <<Len(CmdData)>> \o CmdData)
        \o (IF CmdHasLe THEN <<IF CmdLe = 256 THEN 0 ELSE CmdLe>> ELSE <<>>)

BigEndian16(n) == <<n \div 256, n % 256>>

ExtendedLayout ==
    CmdHeader \o <<0>>
        \o (IF CmdData = <<>> THEN <<>> ELSE BigEndian16(Len(CmdData)) \o CmdData)
        \o (IF CmdHasLe THEN BigEndian16(CmdLe) ELSE <<>>)

\* C7: encode_apdu, short form: when the data length is at most 255 and le,
\* if present, at most 256, the output is CLA INS P1 P2, then the Lc byte and
\* the data if there is data, then one Le byte if le is present; the Le byte
\* is 0x00 for le = 256 and le otherwise; empty data is the same as no data.
C7_ShortForm ==
    (Applied("encode_apdu") /\ ~CmdIsLong) =>
        /\ cx.enc = ShortLayout
        /\ \A i \in 1..Len(cx.enc) : cx.enc[i] \in Byte
        /\ cx.enc = encode_apdu([cx.cmd EXCEPT !.data = IF CmdData = <<>> THEN None ELSE @])

\* 255 data bytes and le = 256 were encoded in short form: Lc = 0xFF and the
\* Le byte is the sentinel 0x00
C7_Witness ==
    /\ Applied("encode_apdu")
    /\ Len(CmdData) = 255 /\ CmdHasLe /\ CmdLe = 256
    /\ Len(cx.enc) = 4 + 1 + 255 + 1
    /\ cx.enc[5] = 255
    /\ cx.enc[Len(cx.enc)] = 0

\* C8: encode_apdu, extended form: extended framing is used iff the data
\* length exceeds 255 or le exceeds 256; the output is then CLA INS P1 P2, one
\* 0x00 marker, a 2-byte big-endian Lc and the data when data is non-empty,
\* and a 2-byte big-endian Le when le is present; "no data and no Le" never
\* occurs in extended form.
C8_ExtendedForm ==
    Applied("encode_apdu") =>
        /\ CmdIsLong <=> cx.enc = ExtendedLayout
        /\ CmdIsLong => /\ CmdData # <<>> \/ CmdHasLe
                        /\ cx.enc[5] = 0
                        /\ Len(cx.enc) >= 4 + 1 + 2
                        /\ \A i \in 1..Len(cx.enc) : cx.enc[i] \in Byte

\* 256 data bytes without le were encoded in extended form
C8_Witness ==
    /\ Applied("encode_apdu")
    /\ Len(CmdData) = 256 /\ ~CmdHasLe
    /\ Len(cx.enc) = 4 + 1 + 2 + 256
    /\ cx.enc[5] = 0 /\ cx.enc[6] = 1 /\ cx.enc[7] = 0

\* C9: decode_apdu_response: a raw reply of n >= 2 bytes gives Ok with data =
\* its first n-2 bytes, sw1 = byte n-2 and sw2 = byte n-1 (counting from 0);
\* a reply of n < 2 bytes gives IncompleteResponse(n).
C9_Decode ==
    Applied("decode_apdu_response") =>
        LET n == Len(cx.raw)
        IN  IF n >= 2
            THEN /\ cx.dec.ok
                 /\ cx.dec.data = Take(cx.raw, n - 2)
                 /\ cx.dec.sw1 = cx.raw[n - 1]
                 /\ cx.dec.sw2 = cx.raw[n]
                 /\ cx.dec.data \o <<cx.dec.sw1, cx.dec.sw2>> = cx.raw
            ELSE /\ ~cx.dec.ok
                 /\ cx.dec.err = IncompleteResponse(n)

\* a three-byte reply AB 61 90 was decoded into data AB and status 61 90
C9_Witness ==
    /\ Applied("decode_apdu_response")
    /\ cx.raw = <<171, 97, 144>>
    /\ cx.dec.ok /\ cx.dec.data = <<171>> /\ cx.dec.sw1 = 97 /\ cx.dec.sw2 = 144

---------------------------------------------------------------------------
(* Properties of transmit_raw, checked under SpecTransmit and LiveTransmit  *)

\* a reply that carries a status word: its data, and whether it ends in 61 XX
ReplyData(r) == Take(r, Len(r) - 2)
ReplyStatus(r) == Drop(r, Len(r) - 2)
EndsIn61(r) == r[Len(r) - 1] = 97

RECURSIVE ConcatData(_)
ConcatData(rs) ==
    IF rs = <<>> THEN <<>> ELSE ReplyData(Head(rs)) \o ConcatData(Tail(rs))

\* C1: GET RESPONSE chaining in transmit_raw terminates for every token
\* behaviour: a call of transmit_raw eventually returns, also against a token
\* that answers every GET RESPONSE with status 61 XX.
C1_TransmitRawReturns == <>(th[1].tx.state \in {"ok", "err"})

\* C2: transmit_raw has returned Ok and the token's replies r0..rn all carry
\* a status word: then r0..r(n-1) end in 61 XX and rn does not, the returned
\* buffer is data(r0) ++ ... ++ data(rn) followed by rn's two status bytes,
\* exactly n GET RESPONSE commands were sent, and the k-th is 00 C0 00 00 XX
\* with XX the sw2 of reply k-1.
C2_ChainingResult ==
    LET tx == th[1].tx
        n == Len(tx.replies) - 1
    IN  (tx.state = "ok" /\ \A i \in 1..(n + 1) : Len(tx.replies[i]) >= 2) =>
            /\ n >= 0
            /\ \A i \in 1..n : EndsIn61(tx.replies[i])
            /\ ~EndsIn61(tx.replies[n + 1])
            /\ tx.result = ConcatData(tx.replies) \o ReplyStatus(tx.replies[n + 1])
            /\ Len(tx.gets) = n
            /\ \A k \in 1..n :
                  tx.gets[k] = <<0, 192, 0, 0, tx.replies[k][Len(tx.replies[k])]>>
            /\ th[1].log = AtTransmitEntry.log
                   \o <<Event("transmit", "", 1, tx.cmd, TRUE)>>
                   \o [k \in 1..n |-> Event("transmit", "", 1, tx.gets[k], TRUE)]

\* the token answered 05 61 05, then 61 00, then 05 90 00: two GET RESPONSE
\* commands were sent and the buffer 05 05 90 00 was returned
C2_Witness ==
    LET tx == th[1].tx
    IN  /\ tx.state = "ok"
        /\ tx.replies = <<<<5, 97, 5>>, <<97, 0>>, <<5, 144, 0>>>>
        /\ tx.gets = <<<<0, 192, 0, 0, 5>>, <<0, 192, 0, 0, 0>>>>
        /\ tx.result = <<5, 5, 144, 0>>

---------------------------------------------------------------------------
(* Properties of the HSM operations, checked under SpecHsm                 *)

\* what is locally wrong with the arguments of a call
BadPin(c) ==
    LET pins == CASE c.op \in {"initialize", "verify_pin"} \cup PinGatedOps -> {c.pin}
                  [] c.op = "change_pin" -> {c.pin, c.new_pin}
                  [] c.op = "unblock_pin" -> {c.new_pin}
                  [] OTHER -> {}
    IN  \E p \in pins : validate_pin(p) # NoError

BadSoPin(c) ==
    LET so_pins == CASE c.op \in {"initialize", "unblock_pin"} -> {c.so_pin}
                     [] c.op = "change_so_pin" -> {c.so_pin, c.new_so_pin}
                     [] OTHER -> {}
    IN  \E p \in so_pins : validate_so_pin(p) # NoError

BadSize(c) ==
    \/ c.op = "generate_rsa_key" /\ c.bits \notin {1024, 2048, 3072, 4096}
    \/ c.op = "generate_aes_key" /\ c.bits \notin {128, 192, 256}
    \/ c.op = "generate_ec_key"
         /\ c.curve \notin {"secp256r1", "brainpoolP256r1", "secp384r1", "secp521r1"}

EmptyPayload(c) ==
    \/ c.op \in {"import_certificate", "import_dkek_share", "unwrap_key"} /\ c.data = <<>>
    \/ c.op \in {"create_dkek_share", "import_dkek_share"} /\ c.password = <<>>

\* the operation made no PC/SC call at all
NoTransport(st) == st.log = <<>> /\ st.conn = 0 /\ st.tx = NoTx

\* C3: an HSM operation whose input is locally invalid returns its validation
\* error with zero transport activity: PinFormatInvalid for a PIN that fails
\* the length check, SoPinFormatInvalid for an SO-PIN that is not 16 hex
\* characters, NotSupported for a key size or curve outside the allow-list,
\* and some error for an empty certificate, DKEK share, DKEK password or
\* wrapped key.
C3_ValidationBeforeTransport ==
    LET st == th[1]
        c == st.call
        kinds == (IF BadPin(c) THEN {"PinFormatInvalid"} ELSE {})
                     \cup (IF BadSoPin(c) THEN {"SoPinFormatInvalid"} ELSE {})
                     \cup (IF BadSize(c) THEN {"NotSupported"} ELSE {})
    IN  (st.pc # "idle" /\ (BadPin(c) \/ BadSoPin(c) \/ BadSize(c) \/ EmptyPayload(c))) =>
            /\ st.pc = "done"
            /\ NoTransport(st)
            /\ ~st.ret.ok
            /\ st.ret.err # NoError
            /\ st.stage = "validation"
            /\ ~EmptyPayload(c) => st.ret.err.kind \in kinds

\* generate_aes_key with a well-formed PIN and 64 bits returned NotSupported
\* and nothing was sent
C3_Witness ==
    /\ th[1].pc = "done"
    /\ th[1].call.op = "generate_aes_key"
    /\ th[1].call.bits = 64
    /\ th[1].call.pin = Digits(6)
    /\ th[1].ret = Failure(NotSupported)
    /\ NoTransport(th[1])

\* C4 as stated: generate_rsa_key(pin, 512, id, label) fails with NotSupported
\* without any transport call, for any pin value.
C4_NotSupportedForAnyPin ==
    (th[1].pc # "idle" /\ th[1].call.op = "generate_rsa_key" /\ th[1].call.bits = 512) =>
        /\ th[1].pc = "done"
        /\ th[1].ret = Failure(NotSupported)
        /\ NoTransport(th[1])

\* C4 amended: generate_rsa_key(pin, 512, id, label) fails without any
\* transport call for any pin value; the error is NotSupported when the PIN
\* passes the 6-16 length check and PinFormatInvalid when it does not.
C4_Rsa512Rejected ==
    (th[1].pc # "idle" /\ th[1].call.op = "generate_rsa_key" /\ th[1].call.bits = 512) =>
        /\ th[1].pc = "done"
        /\ NoTransport(th[1])
        /\ th[1].ret = Failure(IF validate_pin(th[1].call.pin) = NoError
                               THEN NotSupported ELSE PinFormatInvalid)

\* generate_rsa_key with a 16-digit PIN and 512 bits returned NotSupported
C4_Witness ==
    /\ th[1].pc = "done"
    /\ th[1].call.op = "generate_rsa_key"
    /\ th[1].call.bits = 512
    /\ th[1].call.pin = Digits(16)
    /\ th[1].ret = Failure(NotSupported)
    /\ NoTransport(th[1])

\* the kinds of the errors connect_card, transmit_raw, the decoding of the
\* reply and the status word can produce
TransportOrStatusKinds ==
    {CommunicationError("").kind}
        \cup ({status_to_error(sw1, sw2).kind : sw1 \in Byte, sw2 \in Byte} \ {NoError.kind})

\* C5: the error kind an HSM operation returns for a local validation failure
\* is never a kind that a transport or status failure can return.
C5_ValidationKindDistinct ==
    (th[1].pc = "done" /\ th[1].stage = "validation") =>
        th[1].ret.err.kind \notin TransportOrStatusKinds

\* every failure decided after the local checks has one of these kinds
TransportKindsComplete ==
    (th[1].pc = "done" /\ ~th[1].ret.ok
        /\ th[1].stage \in {"connect", "transmit", "decode", "status"}) =>
        th[1].ret.err.kind \in TransportOrStatusKinds

\* C18: enable_secure_lock and disable_secure_lock always fail, the error
\* has the kind NotSupported, and no transport activity takes place.
C18_SecureLockNotSupported ==
    (th[1].pc # "idle" /\ th[1].call.op \in SecureLockOps) =>
        /\ th[1].pc = "done"
        /\ ~th[1].ret.ok
        /\ th[1].ret.err.kind = NotSupported.kind
        /\ NoTransport(th[1])

\* what the code does: both fail without transport, with a CommunicationError
SecureLockFailsLocally ==
    (th[1].pc # "idle" /\ th[1].call.op \in SecureLockOps) =>
        /\ th[1].pc = "done"
        /\ ~th[1].ret.ok
        /\ th[1].ret.err.kind = CommunicationError("").kind
        /\ NoTransport(th[1])

\* READ BINARY on the wire: 00 B0 CE id 00 (Le = 256 in the short form)
ReadBinaryBytes(id) == <<0, 176, 206, id, 0>>
SelectBytes == <<0, 164, 4, 0, 11>> \o SC_HSM_AID

\* the commands of operation log `log` that are not GET RESPONSE
CommandsSent(log) ==
    LET IsCommand(x) == x.e = "transmit" /\ x.bytes[2] # 192
        sent == SelectSeq(log, IsCommand)
    IN  [i \in 1..Len(sent) |-> sent[i].bytes]

\* C19: export_certificate(id) connects, selects the applet and then sends
\* READ BINARY with P1 = 0xCE, P2 = id, Le = 256, and never a VERIFY.  It
\* returns the data of the reply when there is some, and
\* CertificateNotFound(id) when the token answers with a non-error status
\* and no data.
C19_ExportCertificate ==
    LET st == th[1]
        id == st.call.id
        sent == CommandsSent(st.log)
        data == ReplyData(st.tx.result)
        status == ReplyStatus(st.tx.result)
    IN  (st.pc = "done" /\ st.call.op = "export_certificate") =>
            /\ \A i \in 1..Len(sent) : sent[i][2] # 32
            /\ sent \in {<<>>, <<SelectBytes>>, <<SelectBytes, ReadBinaryBytes(id)>>}
            /\ Len(sent) >= 1 =>
                   /\ st.log[1] = Event("establish", "", 0, <<>>, TRUE)
                   /\ st.log[2] = Event("connect", device_path, 1, <<>>, TRUE)
                   /\ st.log[3] = Event("transmit", "", 1, SelectBytes, st.log[3].ok)
                   /\ Len(sent) = 2 => st.log[3].ok
            /\ st.stage \in {"complete", "result"} <=>
                   /\ Len(sent) = 2
                   /\ st.tx.state = "ok"
                   /\ Len(st.tx.result) >= 2
                   /\ status = <<144, 0>> \/ status[1] = 97
            /\ st.stage \in {"complete", "result"} =>
                   st.ret = IF data # <<>>
                            THEN [ok |-> TRUE, err |-> NoError, val |-> data]
                            ELSE Failure(CertificateNotFound(id))
            /\ st.ret.ok => st.stage = "complete"
            /\ st.ret.err.kind = CertificateNotFound(id).kind => st.stage = "result"

\* export_certificate(2) returned the two bytes CE 01 of the token's reply
C19_Witness ==
    /\ th[1].pc = "done"
    /\ th[1].call.op = "export_certificate"
    /\ th[1].call.id = 2
    /\ th[1].ret = [ok |-> TRUE, err |-> NoError, val |-> <<206, 1>>]
    /\ CommandsSent(th[1].log) = <<SelectBytes, ReadBinaryBytes(2)>>

\* export_certificate(1) got 90 00 without data and returned
\* CertificateNotFound(1)
CertificateMissing ==
    /\ th[1].pc = "done"
    /\ th[1].call.op = "export_certificate"
    /\ th[1].tx.result = <<144, 0>>
    /\ th[1].ret = Failure(CertificateNotFound(1))

---------------------------------------------------------------------------
(* Properties of the device manager, checked under SpecDev                 *)

\* thread t has finished open_device on a path that was not opened
OpenedUnopened(t) ==
    dm[t].pc = "done" /\ dm[t].op = "open" /\ dm[t].path \notin dm[t].before

\* C10: open_device(path) on a path that is not in the opened set rescans
\* once; it returns Ok and inserts exactly that path iff the path appears in
\* the device list the rescan returns; otherwise it returns NotFound(path) and
\* leaves the opened set unchanged.
C10_OpenUnopened ==
    \A t \in Threads :
        OpenedUnopened(t) =>
            /\ Len(dm[t].scans) = 1
            /\ LET live == {dm[t].scans[1][i].path : i \in 1..Len(dm[t].scans[1])}
               IN  /\ dm[t].ret.ok <=> dm[t].path \in live
                   /\ dm[t].ret.ok =>
                          /\ dm[t].ret = DevOk
                          /\ dm[t].after = dm[t].before \cup {dm[t].path}
                   /\ ~dm[t].ret.ok =>
                          /\ dm[t].ret = DevErr(NotFound(dm[t].path))
                          /\ dm[t].after = dm[t].before

\* open_device_scan leaves in `opened` what it recorded as the set after the call
C10_AfterIsOpened ==
    [][\A t \in Threads :
          (dm[t].pc = "scan" /\ dm'[t].pc = "done") => opened' = dm'[t].after]_vars

\* with hid-1 opened, reader-A was opened as well
C10_Witness ==
    \E t \in Threads :
        /\ OpenedUnopened(t)
        /\ dm[t].path = "reader-A"
        /\ dm[t].before = {"hid-1"}
        /\ dm[t].ret = DevOk
        /\ opened = {"hid-1", "reader-A"}

\* thread t takes a step from idle to the end of operation op
Completes(t, op) == dm[t].pc = "idle" /\ dm'[t].pc = "done" /\ dm'[t].op = op

\* C11: open_device on a path already in the opened set returns Ok without
\* rescanning and leaves the opened set unchanged, also when the device has
\* been unplugged; a path leaves the opened set only by a successful
\* close_device of that path, whatever scans and removals happen.
C11_OpenIdempotent ==
    /\ [](\A t \in Threads :
             (dm[t].pc = "done" /\ dm[t].op = "open" /\ dm[t].path \in dm[t].before) =>
                 /\ dm[t].ret = DevOk
                 /\ dm[t].scans = <<>>
                 /\ dm[t].after = dm[t].before)
    /\ [][\A t \in Threads :
             (Completes(t, "open") /\ dm'[t].path \in opened) =>
                 /\ dm'[t].before = opened
                 /\ opened' = opened]_vars
    /\ [][\A p \in DevicePaths :
             (p \in opened /\ p \notin opened') =>
                 \E t \in Threads :
                     /\ Completes(t, "close")
                     /\ dm'[t].path = p
                     /\ dm'[t].ret = DevOk]_vars

\* hid-1 was opened, then pulled out, then opened again: Ok, and still opened
C11_Witness ==
    \E t \in Threads :
        /\ dm[t].pc = "done" /\ dm[t].op = "open"
        /\ dm[t].path = "hid-1"
        /\ "hid-1" \in dm[t].before
        /\ plugged = {}
        /\ dm[t].ret = DevOk
        /\ "hid-1" \in opened

\* C12: close_device(path) returns NotFound(path) and leaves the opened set
\* unchanged when the path is not in it; otherwise it returns Ok and removes
\* exactly that path, so that a second close of the path finds it absent.
C12_Close ==
    /\ [](\A t \in Threads :
             (dm[t].pc = "done" /\ dm[t].op = "close") =>
                 IF dm[t].path \in dm[t].before
                 THEN /\ dm[t].ret = DevOk
                      /\ dm[t].after = dm[t].before \ {dm[t].path}
                 ELSE /\ dm[t].ret = DevErr(NotFound(dm[t].path))
                      /\ dm[t].after = dm[t].before)
    /\ [][\A t \in Threads :
             Completes(t, "close") =>
                 /\ dm'[t].before = opened
                 /\ opened' = dm'[t].after
                 /\ dm'[t].path \notin opened']_vars

\* with reader-A opened, closing hid-1 failed with NotFound and reader-A
\* stayed opened
C12_Witness ==
    \E t \in Threads :
        /\ dm[t].pc = "done" /\ dm[t].op = "close"
        /\ dm[t].path = "hid-1"
        /\ dm[t].before = {"reader-A"}
        /\ dm[t].ret = DevErr(NotFound("hid-1"))
        /\ opened = {"reader-A"}

\* C13: scan_devices never returns an error: whatever the two backends
\* return, it returns Ok with the devices of the backends that succeeded, HID
\* devices first, then PC/SC devices; a failed backend contributes nothing and
\* does not suppress the other backend's devices.
C13_ScanNeverFails ==
    \A t \in Threads :
        (dm[t].pc = "done" /\ dm[t].op = "scan") =>
            LET fromHid == IF dm[t].hid.ok THEN dm[t].hid.devs ELSE <<>>
                fromCcid == IF dm[t].ccid.ok THEN dm[t].ccid.devs ELSE <<>>
                all == dm[t].scans[1]
            IN  /\ dm[t].ret = DevOk
                /\ Len(dm[t].scans) = 1
                /\ Len(all) = Len(fromHid) + Len(fromCcid)
                /\ \A i \in 1..Len(fromHid) : all[i] = fromHid[i]
                /\ \A i \in 1..Len(fromCcid) : all[Len(fromHid) + i] = fromCcid[i]

\* the HID backend failed while hid-1 was plugged in, and the scan still
\* returned reader-A from the PC/SC backend
C13_Witness ==
    \E t \in Threads :
        /\ dm[t].pc = "done" /\ dm[t].op = "scan"
        /\ ~dm[t].hid.ok
        /\ dm[t].ccid.ok
        /\ plugged = AllDevices
        /\ dm[t].ret = DevOk
        /\ dm[t].scans = <<<<DeviceInfo("PicoHsm", "reader-A")>>>>

---------------------------------------------------------------------------
(* Properties of devices_changed, checked under SpecChanged                *)

\* the list with its first element moved to the end, and with its first two
\* elements exchanged: every reordering is a composition of these two
Rotated(l) == IF l = <<>> THEN l ELSE Append(Tail(l), Head(l))
FirstTwoSwapped(l) == IF Len(l) < 2 THEN l ELSE <<l[2], l[1]>> \o Drop(l, 2)

\* the list with every field other than path set to a fixed value
PathsOnly(l) ==
    [i \in 1..Len(l) |->
        [device_type |-> "PicoFido", path |-> l[i].path, serial |-> "",
         firmware_version |-> ""]]

\* C14: devices_changed(previous, current) is false iff the lists have the
\* same length and the same set of paths; it is symmetric, independent of the
\* order of either list, false for a list compared with itself, and
\* independent of device_type, serial and firmware_version.
C14_DevicesChanged ==
    Applied("devices_changed") =>
        LET p == cx.previous
            c == cx.current
            samePaths == {p[i].path : i \in 1..Len(p)} = {c[i].path : i \in 1..Len(c)}
        IN  /\ ~cx.changed <=> (Len(p) = Len(c) /\ samePaths)
            /\ devices_changed(c, p) = cx.changed
            /\ ~devices_changed(p, p)
            /\ devices_changed(p, Rotated(c)) = cx.changed
            /\ devices_changed(p, FirstTwoSwapped(c)) = cx.changed
            /\ devices_changed(Rotated(p), c) = cx.changed
            /\ devices_changed(FirstTwoSwapped(p), c) = cx.changed
            /\ devices_changed(PathsOnly(p), c) = cx.changed
            /\ devices_changed(p, PathsOnly(c)) = cx.changed

\* two lists with the same two paths in opposite order and with different
\* types, serials and versions were found unchanged
C14_Witness ==
    /\ Applied("devices_changed")
    /\ Len(cx.previous) = 2 /\ Len(cx.current) = 2
    /\ cx.previous[1].path = "/dev/hid0" /\ cx.previous[2].path = "/dev/reader0"
    /\ cx.current[1].path = "/dev/reader0" /\ cx.current[2].path = "/dev/hid0"
    /\ cx.previous[1].device_type # cx.current[2].device_type
    /\ ~cx.changed


---------------------------------------------------------------------------
(* Properties of the hot-plug monitor, checked under SpecMonitor           *)

\* the list of the last notification, the empty list when there is none
LastPublished ==
    IF mon.emitted = <<>> THEN <<>> ELSE mon.emitted[Len(mon.emitted)]

\* the lists the backends can make scan_devices return right now
CurrentScans ==
    {scan_devices(hid, ccid) :
        hid \in HidResults(plugged), ccid \in CcidResults(plugged)}

---------------------------------------------------------------------------
(* Properties of the PIN checks, checked under SpecValidate                *)

\* C16: validate_pin accepts a PIN iff its length in characters is between
\* 6 and 16, also when the PIN contains multi-byte characters; every other
\* PIN gives PinFormatInvalid.
C16_PinLengthInCharacters ==
    Applied("validate_pin") =>
        /\ cx.err \in {NoError, PinFormatInvalid}
        /\ cx.err = NoError <=> (Len(cx.text) >= 6 /\ Len(cx.text) <= 16)

\* what the code does: the length is counted in UTF-8 bytes
PinLengthInBytes ==
    Applied("validate_pin") =>
        /\ cx.err \in {NoError, PinFormatInvalid}
        /\ cx.err = NoError <=> (str_len(cx.text) >= 6 /\ str_len(cx.text) <= 16)

\* a PIN of three two-byte characters was accepted
ShortPinAccepted ==
    Applied("validate_pin") /\ cx.text = Accented(3) /\ cx.err = NoError

\* C17: validate_so_pin accepts an SO-PIN iff it has exactly 16 characters
\* and all of them are hexadecimal digits (0-9, a-f, A-F); every other
\* string, the empty one included, gives SoPinFormatInvalid.
C17_SoPinSixteenHex ==
    Applied("validate_so_pin") =>
        /\ cx.err \in {NoError, SoPinFormatInvalid}
        /\ cx.err = NoError <=>
               /\ Len(cx.text) = 16
               /\ \A i \in 1..Len(cx.text) :
                      cx.text[i] \in (48..57) \cup (65..70) \cup (97..102)

\* 16 hex digits with a 'g' in the last place were rejected
C17_Witness ==
    /\ Applied("validate_so_pin")
    /\ cx.text = [HexLower EXCEPT ![16] = 103]
    /\ cx.err = SoPinFormatInvalid

---------------------------------------------------------------------------
(* Properties of get_device_info, checked under SpecInfo                   *)

\* the 32-bit big-endian number in bytes k..k+3 of d, as its 16-bit halves
Counter(d, k) == <<d[k] * 256 + d[k + 1], d[k + 2] * 256 + d[k + 3]>>

\* C20: get_device_info fails only when its initial connect and SELECT
\* fail.  Once they succeeded it returns Ok whatever comes of the later
\* exchanges; free, used and total memory and the file count are all zero
\* when the memory exchange fails or brings fewer than 16 data bytes, and
\* otherwise they are the first four big-endian 32-bit numbers of its data,
\* in the order free, used, total, file count.
C20_DeviceInfo ==
    LET st == th[1]
        mem == st.outs[Len(st.outs)]
        info == st.ret.val
    IN  (st.pc = "done" /\ st.call.op = "get_device_info") =>
            /\ st.ret.ok <=> (st.outs # <<>> /\ st.outs[1].xi = 1 /\ st.outs[1].ok)
            /\ ~st.ret.ok =>
                   /\ st.outs = <<>>
                   /\ st.xi = 1
                   /\ st.stage \in {"connect", "transmit", "decode", "status"}
                   /\ \A j \in 1..Len(st.log) :
                          st.log[j].e = "transmit" =>
                              st.log[j].bytes[2] \in {164, 192}
            /\ st.ret.ok =>
                   /\ mem.xi = 3
                   /\ IF mem.ok /\ Len(mem.val) >= 16
                      THEN /\ info.free_memory = Counter(mem.val, 1)
                           /\ info.used_memory = Counter(mem.val, 5)
                           /\ info.total_memory = Counter(mem.val, 9)
                           /\ info.file_count = Counter(mem.val, 13)
                      ELSE /\ info.free_memory = <<0, 0>>
                           /\ info.used_memory = <<0, 0>>
                           /\ info.total_memory = <<0, 0>>
                           /\ info.file_count = <<0, 0>>

\* the memory exchange brought 20 data bytes: free = 0x00010203,
\* used = 0x04050607, total = 0xC8090A0B, file count = 300
C20_Witness ==
    /\ th[1].pc = "done"
    /\ th[1].call.op = "get_device_info"
    /\ th[1].ret.ok
    /\ th[1].outs[Len(th[1].outs)].val = Counters
    /\ th[1].ret.val.free_memory = <<1, 515>>
    /\ th[1].ret.val.used_memory = <<1029, 1543>>
    /\ th[1].ret.val.total_memory = <<51209, 2571>>
    /\ th[1].ret.val.file_count = <<0, 300>>

\* both later exchanges failed, the second one at connect_card, and
\* get_device_info returned Ok with counters of zero
LaterExchangesFailed ==
    /\ th[1].pc = "done"
    /\ th[1].call.op = "get_device_info"
    /\ th[1].ret.ok
    /\ Len(th[1].outs) = 3
    /\ ~th[1].outs[2].ok
    /\ ~th[1].outs[3].ok
    /\ ~th[1].log[Len(th[1].log)].ok
    /\ th[1].log[Len(th[1].log)].e = "connect"
    /\ th[1].ret.val = NoInfo

\* the memory exchange brought 15 data bytes and the counters are zero
FifteenBytes ==
    /\ th[1].pc = "done"
    /\ th[1].call.op = "get_device_info"
    /\ th[1].ret.ok
    /\ Len(th[1].outs[Len(th[1].outs)].val) = 15
    /\ th[1].ret.val.total_memory = <<0, 0>>

---------------------------------------------------------------------------
(* Properties of the FIDO command layer, checked under SpecValidate and    *)
(* SpecFido                                                                *)

\* C21: the FIDO validate_pin accepts a PIN iff the length of its UTF-8
\* encoding is between 4 and 63 bytes, counted in bytes and not in
\* characters; 0 to 3 bytes and 64 bytes or more give PinLengthInvalid.
C21_FidoPinLengthInBytes ==
    Applied("fido_validate_pin") =>
        LET bytes == Len(cx.text) + Cardinality({i \in 1..Len(cx.text) : cx.text[i] >= 128})
        IN  cx.err = IF bytes >= 4 /\ bytes <= 63 THEN NoError ELSE PinLengthInvalid

\* a PIN of two two-byte characters (4 bytes) was accepted
C21_Witness ==
    Applied("fido_validate_pin") /\ cx.text = Accented(2) /\ cx.err = NoError

\* a PIN of 32 two-byte characters (64 bytes) was rejected
LongPinRejected ==
    Applied("fido_validate_pin") /\ cx.text = Accented(32) /\ cx.err = PinLengthInvalid

\* the FIDO operations that take a PIN
FidoPinOps ==
    {"set_pin", "change_pin", "list_credentials", "delete_credential",
     "set_min_pin_length", "toggle_enterprise_attestation", "get_backup_words",
     "restore_from_words"}

\* the byte length of the PIN is outside 4..63
BadFidoPin(pin) == Len(as_bytes(pin)) < 4 \/ Len(as_bytes(pin)) > 63

\* the operation never called send_ctap_command
NoFidoTransport == fi.sent = <<>> /\ fi.decoded = <<>>

\* C22: every FIDO operation that takes a PIN (change_pin for its old and
\* its new PIN) returns PinLengthInvalid without calling the transport
\* whenever a PIN argument has a byte length outside 4..63.
C22_PinCheckedBeforeTransport ==
    (fi.pc = "done" /\ fi.call.op \in FidoPinOps
        /\ (BadFidoPin(fi.call.pin)
               \/ (fi.call.op = "change_pin" /\ BadFidoPin(fi.call.old_pin)))) =>
        /\ fi.ret = Failure(PinLengthInvalid)
        /\ NoFidoTransport

\* what the code does: the same for every PIN argument but the old PIN of
\* change_pin, which is not looked at
PinCheckedExceptOldPin ==
    (fi.pc = "done" /\ fi.call.op \in FidoPinOps /\ BadFidoPin(fi.call.pin)) =>
        /\ fi.ret = Failure(PinLengthInvalid)
        /\ NoFidoTransport

\* change_pin with an old PIN of three bytes and a new PIN of four went on
\* to send_ctap_command
OldPinUnchecked ==
    /\ fi.pc = "done"
    /\ fi.call.op = "change_pin"
    /\ fi.call.old_pin = Digits(3)
    /\ fi.call.pin = Digits(4)
    /\ fi.sent # <<>>
    /\ fi.ret.err.kind = "CommunicationError"

\* the two errors of the transport boundary
TransportBoundary ==
    {FidoCommunicationError("no device selected"),
     FidoCommunicationError("CTAP HID not implemented")}

\* C23: no FIDO operation ever returns success: whenever the input passes
\* the operation's validation the result is the CommunicationError of the
\* transport boundary, with a device path bound or without, and no response
\* bytes are ever decoded.
C23_NeverSucceeds ==
    fi.pc = "done" =>
        /\ ~fi.ret.ok
        /\ fi.decoded = <<>>
        /\ fi.stage \in {"validation", "transport"}
        /\ (FirstError(FidoChecks(fi.call)) = NoError) =>
              /\ fi.sent = <<encode_ctap_command(FidoCommand(fi.call))>>
              /\ fi.ret.err \in TransportBoundary
              /\ fi.ret.err.kind = "CommunicationError"

\* set_pin with a valid PIN, called on a module bound to a device, ended at
\* the transport boundary
C23_Witness ==
    /\ fi.pc = "done"
    /\ fi.call.op = "set_pin"
    /\ fi.call.pin = Digits(4)
    /\ fi.sent # <<>>
    /\ fi.ret = Failure(FidoCommunicationError("CTAP HID not implemented"))

\* get_info, called with no device bound, ended at the transport boundary
UnboundBoundary ==
    /\ fi.pc = "done"
    /\ fi.call.op = "get_info"
    /\ fido_device_path = ""
    /\ fi.ret = Failure(FidoCommunicationError("no device selected"))

\* the operation handed a command to send_ctap_command
ReachedTransport == fi.sent # <<>>

\* C24: add_oath_credential reaches the transport only if the secret is
\* non-empty, the account is non-empty and the digits are 6 or 8;
\* calculate_oath and delete_oath_credential fail without reaching the
\* transport on an empty credential id.
C24_OathChecks ==
    fi.pc = "done" =>
        /\ (fi.call.op = "add_oath_credential" /\ ReachedTransport) =>
              /\ fi.call.secret # <<>>
              /\ fi.call.account # <<>>
              /\ fi.call.digits \in {6, 8}
        /\ (fi.call.op \in {"calculate_oath", "delete_oath_credential"}
               /\ fi.call.id = <<>>) =>
              /\ ~fi.ret.ok
              /\ NoFidoTransport

\* add_oath_credential with a secret, an account and 7 digits was refused
\* before the transport
C24_Witness ==
    /\ fi.pc = "done"
    /\ fi.call.op = "add_oath_credential"
    /\ fi.call.secret # <<>>
    /\ fi.call.account # <<>>
    /\ fi.call.digits = 7
    /\ ~fi.ret.ok
    /\ NoFidoTransport

\* add_oath_credential with a secret, an account and 8 digits reached the
\* transport
OathReachedTransport ==
    /\ fi.pc = "done"
    /\ fi.call.op = "add_oath_credential"
    /\ fi.call.digits = 8
    /\ ReachedTransport

\* calculate_oath with an empty credential id was refused
EmptyOathId ==
    /\ fi.pc = "done"
    /\ fi.call.op = "calculate_oath"
    /\ fi.call.id = <<>>
    /\ fi.stage = "validation"
    /\ NoFidoTransport

\* C25: restore_from_words reaches the transport only if the PIN is valid,
\* there are exactly 24 words and no word is blank after trimming; the PIN
\* check takes precedence over the checks of the words.
C25_RestoreChecks ==
    (fi.pc = "done" /\ fi.call.op = "restore_from_words") =>
        /\ ReachedTransport =>
              /\ ~BadFidoPin(fi.call.pin)
              /\ Len(fi.call.words) = 24
              /\ \A i \in 1..Len(fi.call.words) :
                    \E j \in 1..Len(fi.call.words[i]) :
                        ~is_whitespace(fi.call.words[i][j])
        /\ BadFidoPin(fi.call.pin) => fi.ret = Failure(PinLengthInvalid)

\* restore_from_words with a valid PIN and 24 words of which the last is an
\* ideographic space was refused before the transport
C25_Witness ==
    /\ fi.pc = "done"
    /\ fi.call.op = "restore_from_words"
    /\ fi.call.pin = Digits(4)
    /\ Len(fi.call.words) = 24
    /\ fi.call.words[24] = <<12288>>
    /\ ~fi.ret.ok
    /\ NoFidoTransport

\* restore_from_words with a three-byte PIN and 23 words returned
\* PinLengthInvalid
PinBeforeWords ==
    /\ fi.pc = "done"
    /\ fi.call.op = "restore_from_words"
    /\ fi.call.pin = Digits(3)
    /\ Len(fi.call.words) = 23
    /\ fi.ret = Failure(PinLengthInvalid)

\* restore_from_words with a valid PIN and 24 words reached the transport
RestoreReachedTransport ==
    /\ fi.pc = "done"
    /\ fi.call.op = "restore_from_words"
    /\ ReachedTransport

---------------------------------------------------------------------------
(* Properties of the CTAP codec, checked under SpecCtap                    *)

\* the command byte of each CTAP command
CommandCode(variant) ==
    CASE variant = "GetInfo" -> 4
      [] variant = "MakeCredential" -> 1
      [] variant = "GetAssertion" -> 2
      [] variant = "ClientPin" -> 6
      [] variant = "CredentialManagement" -> 10
      [] variant = "AuthenticatorConfig" -> 13
      [] variant = "Reset" -> 7
      [] variant = "Selection" -> 11

\* C26: the first byte encode_ctap_command writes is the command code of
\* the command; the five commands without a sub-command are that single
\* byte, and every command with a sub-command is followed by a non-empty
\* CBOR encoding of the sub-command, so that its length is above 1.
C26_EncodeCtapCommand ==
    Applied("encode_ctap_command") =>
        /\ cx.enc # <<>>
        /\ cx.enc[1] = CommandCode(cx.cmd.variant)
        /\ cx.cmd.sub = "" => cx.enc = <<CommandCode(cx.cmd.variant)>>
        /\ cx.cmd.sub # "" =>
              /\ Len(cx.enc) > 1
              /\ from_slice(Tail(cx.enc))

\* ClientPin with the sub-command GetRetries was encoded as 0x06 and the
\* text string "GetRetries"
C26_Witness ==
    /\ Applied("encode_ctap_command")
    /\ cx.cmd = CtapCommand("ClientPin", "GetRetries")
    /\ cx.enc = <<6, 106, 71, 101, 116, 82, 101, 116, 114, 105, 101, 115>>

\* Selection was encoded as the single byte 0x0B
SelectionEncoded ==
    /\ Applied("encode_ctap_command")
    /\ cx.cmd = CtapCommand("Selection", "")
    /\ cx.enc = <<11>>

\* The well-formed CBOR data items of up to n bytes over CborBytes, built
\* from the grammar of the format: an unsigned integer in the head (0x00) or
\* in one more byte (0x18), a byte string (0x41) and a text string (0x61,
\* UTF-8) of one byte, the empty array (0x80), an array of one item (0x81),
\* a map of one pair (0xA1), a tagged item (0xC0), null (0xF6), and an array
\* of indefinite length (0x9F) closed by the break byte.
RECURSIVE CborItems(_)
RECURSIVE CborItemSeqs(_)
CborItemSeqs(n) ==
    IF n <= 0 THEN {<<>>}
    ELSE {<<>>} \cup UNION {{a \o rest : rest \in CborItemSeqs(n - Len(a))} :
                               a \in CborItems(n)}

CborItems(n) ==
    IF n <= 0 THEN {}
    ELSE {<<0>>, <<128>>, <<246>>}
           \cup (IF n < 2 THEN {}
                 ELSE {<<24, x>> : x \in CborBytes}
                        \cup {<<65, x>> : x \in CborBytes}
                        \cup {<<97, x>> : x \in {b \in CborBytes : b < 128}})
           \cup {<<129>> \o item : item \in CborItems(n - 1)}
           \cup {<<192>> \o item : item \in CborItems(n - 1)}
           \cup UNION {{<<161>> \o key \o value : value \in CborItems(n - 1 - Len(key))} :
                          key \in CborItems(n - 2)}
           \cup {<<159>> \o items \o <<255>> : items \in CborItemSeqs(n - 2)}

WellFormedPayloads == CborItems(MaxPayloadLen)

\* C27: decode_ctap_response returns Success only when the first byte is
\* 0x00 and the rest is absent or one valid CBOR item; an empty reply is an
\* error, a reply whose first byte is not zero is an error, and 0x00
\* followed by malformed CBOR is a decoding error.
C27_DecodeCtapResponse ==
    Applied("decode_ctap_response") =>
        /\ cx.dec.ok <=>
              /\ cx.raw # <<>>
              /\ cx.raw[1] = 0
              /\ Len(cx.raw) = 1 \/ Tail(cx.raw) \in WellFormedPayloads
        /\ ~cx.dec.ok => cx.dec.err.kind = "DecodingError"

\* 0x00 followed by an array of one null was decoded as a success
C27_Witness ==
    /\ Applied("decode_ctap_response")
    /\ cx.raw = <<0, 129, 246>>
    /\ cx.dec.ok

\* 0x00 followed by a null and one more byte was refused
TrailingByteRefused ==
    /\ Applied("decode_ctap_response")
    /\ cx.raw = <<0, 246, 0>>
    /\ ~cx.dec.ok
    /\ cx.dec.err.kind = "DecodingError"

\* the status byte alone was decoded as a success
StatusAlone ==
    /\ Applied("decode_ctap_response")
    /\ cx.raw = <<0>>
    /\ cx.dec.ok

\* the empty reply was refused
EmptyReplyRefused ==
    /\ Applied("decode_ctap_response")
    /\ cx.raw = <<>>
    /\ ~cx.dec.ok

\* the kind the status-code table gives a non-zero status
StatusKind(c) ==
    CASE c = 49 -> FidoPinInvalid(0)
      [] c = 50 -> FidoPinLocked
      [] c = 51 -> PinLengthInvalid
      [] c = 54 -> FidoPinInvalid(0)
      [] OTHER -> CtapError(c)

\* C28: a non-zero status c is reported by the table 0x31 -> PinInvalid,
\* 0x32 -> PinLocked, 0x33 -> PinLengthInvalid, 0x36 -> PinInvalid, any
\* other -> CtapError(c), both by ctap_error_to_fido_error(c) and by the
\* FIDO command layer when it decodes a reply that starts with c.
C28_StatusTable ==
    /\ (Applied("ctap_error_to_fido_error") /\ cx.sw1 # 0) =>
          cx.err = StatusKind(cx.sw1)
    /\ (Applied("FidoReply") /\ cx.raw # <<>> /\ cx.raw[1] # 0) =>
          /\ ~cx.dec.ok
          /\ cx.dec.err = StatusKind(cx.raw[1])

\* what holds of the code: ctap_error_to_fido_error follows the table
TableOfTheFunction ==
    (Applied("ctap_error_to_fido_error") /\ cx.sw1 # 0) =>
        cx.err = StatusKind(cx.sw1)

\* what holds of the code: a reply that starts with a non-zero status makes
\* every operation fail with CborError, whatever the status is
StatusReportedAsCborError ==
    (Applied("FidoReply") /\ cx.raw # <<>> /\ cx.raw[1] # 0) =>
        /\ ~cx.dec.ok
        /\ cx.dec.err.kind = "CborError"
        /\ cx.dec.stage = "decode"

\* set_pin made CborError of a reply with the status 0x31
PinInvalidAsCborError ==
    /\ Applied("FidoReply")
    /\ cx.cmd.op = "set_pin"
    /\ cx.raw = <<49>>
    /\ cx.dec.err.kind = "CborError"

\* ctap_error_to_fido_error(0x36) gave PinInvalid
PinAuthInvalid ==
    /\ Applied("ctap_error_to_fido_error")
    /\ cx.sw1 = 54
    /\ cx.err = FidoPinInvalid(0)

---------------------------------------------------------------------------
(* Properties of the connections of an HSM operation, checked under        *)
(* SpecHsm                                                                 *)

\* the positions in the log of the card connections made
Connects(log) == {i \in 1..Len(log) : log[i].e = "connect" /\ log[i].ok}

\* the positions in the log of the SELECT commands transmitted
Selects(log) ==
    {i \in 1..Len(log) : log[i].e = "transmit" /\ log[i].bytes = SelectBytes}

\* the connections on which something was transmitted
ConnectionsUsed(log) == {log[i].conn : i \in {j \in 1..Len(log) : log[j].e = "transmit"}}

\* C29: each logical HSM operation performs all of its APDU exchanges
\* (SELECT, VERIFY where the operation needs it, the substantive
\* instruction) on one card connection established once; no operation opens
\* a second connection or repeats connect and SELECT between its PIN
\* verification and its substantive instruction.
C29_OneConnection ==
    th[1].pc # "idle" =>
        /\ Cardinality(Connects(th[1].log)) <= 1
        /\ Cardinality(Selects(th[1].log)) <= 1
        /\ Cardinality(ConnectionsUsed(th[1].log)) <= 1

\* what the code does: one connection and one SELECT for each execute_apdu
\* call, so two of each for the operations that verify the PIN first
ConnectionPerExchange ==
    th[1].pc # "idle" =>
        /\ Cardinality(Connects(th[1].log)) <= Len(Commands(th[1].call))
        /\ Cardinality(Selects(th[1].log)) <= Len(Commands(th[1].call))
        /\ \A i \in 1..Len(th[1].log) :
              (th[1].log[i].e = "transmit"
                  /\ th[1].log[i].bytes = encode_apdu(SubstantiveCmd(th[1].call))) =>
                  th[1].log[i].conn = Len(Commands(th[1].call))

\* list_keys sent VERIFY on its first connection and ENUMERATE OBJECTS on
\* its second, after a second SELECT
SecondConnection ==
    LET log == th[1].log
    IN  /\ th[1].pc = "done"
        /\ th[1].call.op = "list_keys"
        /\ th[1].ret.ok
        /\ Cardinality(Connects(log)) = 2
        /\ Cardinality(Selects(log)) = 2
        /\ \E i, j \in 1..Len(log) :
              /\ log[i] = Event("transmit", "", 1, encode_apdu(VerifyCmd(th[1].call.pin)), TRUE)
              /\ log[j] = Event("transmit", "", 2, encode_apdu(EnumerateCmd), TRUE)

\* the commands of the operation itself (neither SELECT nor GET RESPONSE)
CommandBytes(c) ==
    {encode_apdu(Commands(c)[k]) : k \in 1..Len(Commands(c))} \ {SelectBytes}

\* the status word at the end of a reply is one status_to_error lets pass
NonErrorStatus(reply) ==
    /\ Len(reply) >= 2
    /\ status_to_error(reply[Len(reply) - 1], reply[Len(reply)]) = NoError

\* the transmit at log[i] was preceded, on its connection, by the connect
\* and by a SELECT of the AID that was transmitted
AfterConnectAndSelect(log, i) ==
    \E j, k \in 1..Len(log) :
        /\ j < k /\ k < i
        /\ log[j].e = "connect" /\ log[j].ok /\ log[j].conn = log[i].conn
        /\ log[k] = Event("transmit", "", log[i].conn, SelectBytes, TRUE)

\* every command of the operation in the log went out after connect and
\* SELECT on its connection
CommandsAfterSelect ==
    \A i \in 1..Len(th[1].log) :
        (th[1].log[i].e = "transmit" /\ th[1].log[i].bytes \in CommandBytes(th[1].call)) =>
            /\ th[1].log[i].conn # 0
            /\ AfterConnectAndSelect(th[1].log, i)

\* a step that makes a command of the operation ready to transmit is the
\* step that found a non-error status in the reply to SELECT
SelectGate ==
    (th'[1].pc = "apdu" /\ th[1].pc # "apdu") =>
        /\ th[1].pc = "select"
        /\ th[1].tx.cmd = SelectBytes
        /\ th[1].tx.state = "ok"
        /\ NonErrorStatus(th[1].tx.result)
        /\ th'[1].conn = th[1].conn
        /\ th[1].conn \in {th[1].log[j].conn : j \in Connects(th[1].log)}
        /\ th'[1].tx.cmd \in CommandBytes(th[1].call)
        /\ th'[1].log = th[1].log

\* connect_card fails in this step: no connection is made
ConnectFails ==
    /\ th[1].pc = "connect"
    /\ th'[1] # th[1]
    /\ th'[1].pc # "select"

\* the reply to SELECT carries an error status
SelectRefuses ==
    /\ th[1].pc = "select" /\ th[1].tx.state = "ok" /\ th[1].tx.cmd = SelectBytes
    /\ Len(th[1].tx.result) >= 2 /\ ~NonErrorStatus(th[1].tx.result)
    /\ th'[1] # th[1]

\* the operation returns the error of the failed connect
ConnectErrorReturned ==
    /\ th'[1].pc = "done"
    /\ th'[1].stage = "connect"
    /\ th'[1].ret.err.kind = "CommunicationError" /\ ~th'[1].ret.ok
    /\ \A i \in 1..Len(th'[1].log) :
          i > Len(th[1].log) => th'[1].log[i].e # "transmit"

\* the operation returns the error of the status word of SELECT
SelectErrorReturned ==
    /\ th'[1].pc = "done"
    /\ th'[1].stage = "status"
    /\ th'[1].ret =
          Failure(status_to_error(th[1].tx.result[Len(th[1].tx.result) - 1],
                                  th[1].tx.result[Len(th[1].tx.result)]))
    /\ th'[1].log = th[1].log

\* a failed connect, and a reply to SELECT with an error status, end the
\* operation with that error and nothing more is transmitted
FailureEnds ==
    /\ ConnectFails => ConnectErrorReturned
    /\ SelectRefuses => SelectErrorReturned
    /\ (th[1].pc = "done" /\ th'[1].pc # "done") => th'[1] = IdleThread

\* get_device_info takes the exchange for failed, transmits nothing more in
\* it, and goes on to its next exchange or returns Ok
ExchangeGivenUp ==
    /\ th'[1].outs = Append(th[1].outs, [xi |-> th[1].xi, ok |-> FALSE, val |-> <<>>])
    /\ th'[1].conn = 0
    /\ \A i \in 1..Len(th'[1].log) :
          i > Len(th[1].log) => th'[1].log[i].e # "transmit"
    /\ IF th[1].xi = 2
       THEN th'[1].pc = "connect" /\ th'[1].xi = 3
       ELSE /\ th'[1].pc = "done"
            /\ th'[1].ret = [ok |-> TRUE, err |-> NoError, val |-> th[1].info]

\* the same, but for the second and third exchange of get_device_info
FailureEndsExchange ==
    LET tolerated == th[1].call.op = "get_device_info" /\ th[1].xi >= 2
    IN  /\ ConnectFails => IF tolerated THEN ExchangeGivenUp ELSE ConnectErrorReturned
        /\ SelectRefuses => IF tolerated THEN ExchangeGivenUp ELSE SelectErrorReturned
        /\ (th[1].pc = "done" /\ th'[1].pc # "done") => th'[1] = IdleThread

\* C30: in every HSM operation that reaches the token the substantive APDU
\* is transmitted only after a card connect and a SELECT of the 11-byte
\* SC-HSM AID on the same connection returned a non-error status; if the
\* connect fails or SELECT returns an error status, the operation returns
\* that error and the substantive APDU is never transmitted.
C30_SelectBeforeCommand ==
    /\ [](Len(SC_HSM_AID) = 11 /\ CommandsAfterSelect)
    /\ [][SelectGate /\ FailureEnds]_vars

\* C30 amended: in every HSM operation that reaches the token the
\* substantive APDU is transmitted only after a card connect and a SELECT of
\* the 11-byte SC-HSM AID on the same connection returned a non-error
\* status; if the connect fails or SELECT returns an error status, the
\* substantive APDU is not transmitted and the operation returns that
\* error, except get_device_info in its second and third exchange, which
\* gives the exchange up and goes on to return Ok.
C30_SelectGuardsCommand ==
    /\ [](Len(SC_HSM_AID) = 11 /\ CommandsAfterSelect)
    /\ [][SelectGate /\ FailureEndsExchange]_vars

\* get_device_info returned Ok although SELECT was answered 6F 00 in its
\* third exchange, and the memory command was never transmitted
SelectRefusalTolerated ==
    /\ th[1].pc = "done"
    /\ th[1].call.op = "get_device_info"
    /\ th[1].ret.ok
    /\ th[1].tx.cmd = SelectBytes
    /\ th[1].tx.result = <<111, 0>>
    /\ \A i \in 1..Len(th[1].log) : th[1].log[i].bytes # encode_apdu(MemoryCmd)

\* change_pin transmitted CHANGE REFERENCE DATA after the connect and a
\* SELECT answered 90 00
C30_Witness ==
    LET log == th[1].log
    IN  /\ th[1].call.op = "change_pin"
        /\ Len(log) = 4
        /\ log[2].e = "connect" /\ log[2].ok
        /\ log[3] = Event("transmit", "", 1, SelectBytes, TRUE)
        /\ log[4] = Event("transmit", "", 1, encode_apdu(SubstantiveCmd(th[1].call)), TRUE)

\* SELECT was answered 6A 82: the operation returned that error and its
\* command was never transmitted
SelectRefused ==
    LET log == th[1].log
    IN  /\ th[1].pc = "done"
        /\ th[1].call.op = "export_certificate"
        /\ th[1].stage = "status"
        /\ th[1].ret = Failure(KeyNotFound(0))
        /\ log[Len(log)] = Event("transmit", "", 1, SelectBytes, TRUE)

\* the connect failed: the operation returned CommunicationError and
\* transmitted nothing
ConnectFailed ==
    /\ th[1].pc = "done"
    /\ th[1].stage = "connect"
    /\ th[1].log # <<>>
    /\ ~th[1].log[Len(th[1].log)].ok
    /\ th[1].log[Len(th[1].log)].e = "connect"
    /\ ConnectionsUsed(th[1].log) = {}

---------------------------------------------------------------------------
(* Properties of the exchanges of an HSM operation, checked under SpecHsm  *)

\* VERIFY of the user PIN: INS 0x20, P2 0x81, the PIN as data
IsVerify(bytes, pin) ==
    /\ Len(bytes) >= 5
    /\ bytes[2] = 32
    /\ bytes[4] = 129
    /\ bytes = <<0, 32, 0, 129, Len(as_bytes(pin))>> \o as_bytes(pin)

\* the substantive instruction of the running operation
SubstantiveBytes(st) == encode_apdu(SubstantiveCmd(st.call))

\* every substantive instruction of a PIN-gated operation in the log comes
\* after a VERIFY of the same operation that was transmitted
SubstantiveAfterVerify ==
    LET log == th[1].log
    IN  th[1].call.op \in PinGatedOps =>
            \A i \in 1..Len(log) :
                (log[i].e = "transmit" /\ log[i].bytes = SubstantiveBytes(th[1])) =>
                    \E j \in 1..(i - 1) :
                        /\ log[j].e = "transmit" /\ log[j].ok
                        /\ IsVerify(log[j].bytes, th[1].call.pin)

\* for a generate operation whose size or curve is not on the allow-list
\* nothing is sent, VERIFY included, and NotSupported is returned
AllowListFirst ==
    LET c == th[1].call
    IN  (th[1].pc # "idle"
            /\ validate_pin(c.pin) = NoError
            /\ \/ c.op = "generate_rsa_key" /\ c.bits \notin {1024, 2048, 3072, 4096}
               \/ c.op = "generate_aes_key" /\ c.bits \notin {128, 192, 256}
               \/ c.op = "generate_ec_key" /\ c.curve \notin EcCurves) =>
            /\ th[1].pc = "done"
            /\ th[1].ret = Failure(NotSupported)
            /\ th[1].log = <<>>

\* the operation goes on to its substantive instruction in the step that
\* found a non-error status in the reply to its VERIFY
VerifyGate ==
    (th[1].call.op \in PinGatedOps /\ th[1].xi = 1 /\ th'[1].xi = 2) =>
        /\ th[1].pc = "apdu"
        /\ th[1].tx.state = "ok"
        /\ IsVerify(th[1].tx.cmd, th[1].call.pin)
        /\ NonErrorStatus(th[1].tx.result)

\* a reply to VERIFY with an error status ends the operation with the
\* error of that status, and nothing more is transmitted
VerifyFailureEnds ==
    LET r == th[1].tx.result
    IN  (th[1].call.op \in PinGatedOps /\ th[1].pc = "apdu" /\ th[1].xi = 1
            /\ th[1].tx.state = "ok" /\ Len(r) >= 2 /\ ~NonErrorStatus(r)) =>
            /\ th'[1].pc = "done"
            /\ th'[1].ret = Failure(status_to_error(r[Len(r) - 1], r[Len(r)]))
            /\ th'[1].log = th[1].log

\* C31: for the PIN-gated HSM operations the substantive instruction is
\* transmitted only after a VERIFY exchange (INS 0x20, P2 0x81) of the same
\* operation returned success; if VERIFY fails the operation returns that
\* error and the substantive instruction is never sent; and for the
\* generate operations the size/curve allow-list is checked before VERIFY
\* is sent.
C31_VerifyBeforeSubstantive ==
    /\ [](SubstantiveAfterVerify /\ AllowListFirst)
    /\ [][VerifyGate /\ VerifyFailureEnds]_vars

\* delete_key sent DELETE FILE after its VERIFY was answered 90 00
C31_Witness ==
    LET log == th[1].log
    IN  /\ th[1].call.op = "delete_key"
        /\ th[1].xi = 2
        /\ log # <<>>
        /\ log[Len(log)] = Event("transmit", "", 2, SubstantiveBytes(th[1]), TRUE)
        /\ \E j \in 1..Len(log) : IsVerify(log[j].bytes, th[1].call.pin) /\ log[j].ok

\* VERIFY was answered 63 C2: wrap_key returned PinInvalid(2) and WRAP KEY
\* was never sent
VerifyRefused ==
    /\ th[1].pc = "done"
    /\ th[1].call.op = "wrap_key"
    /\ th[1].ret = Failure(PinInvalid(2))
    /\ \A i \in 1..Len(th[1].log) : th[1].log[i].bytes # SubstantiveBytes(th[1])

\* generate_rsa_key with 512 bits was refused before anything was sent
SizeRefused ==
    /\ th[1].pc = "done"
    /\ th[1].call.op = "generate_rsa_key"
    /\ th[1].call.bits = 512
    /\ validate_pin(th[1].call.pin) = NoError
    /\ th[1].ret = Failure(NotSupported)
    /\ th[1].log = <<>>

---------------------------------------------------------------------------
(* Properties of a failed transmit, checked under SpecMixed                *)

\* card.transmit fails in this step: for the initial command or for a GET
\* RESPONSE of the chaining loop
TransmitFails ==
    /\ th[1].tx.state \in {"send", "loop"}
    /\ th'[1].tx.state = "err"

\* the messages of the two map_err calls of transmit_raw
TransmitErrors ==
    {CommunicationError("APDU transmit failed"), CommunicationError("GET RESPONSE failed")}

\* the failed transmit is the last entry of the log and nothing was
\* transmitted after it on its connection
LastOnConnection ==
    \A i \in 1..Len(th[1].log) :
        (th[1].log[i].e = "transmit" /\ ~th[1].log[i].ok) =>
            \A j \in (i + 1)..Len(th[1].log) :
                ~(th[1].log[j].e = "transmit" /\ th[1].log[j].conn = th[1].log[i].conn)

\* the operation returns the CommunicationError of transmit_raw, without
\* data
ReturnsTransmitError ==
    /\ th'[1].pc = "done"
    /\ th'[1].stage = "transmit"
    /\ ~th'[1].ret.ok
    /\ th'[1].ret.err \in TransmitErrors
    /\ th'[1].ret.err.kind = "CommunicationError"
    /\ th'[1].ret.val = <<>>
    /\ th'[1].conn = th[1].conn
    /\ Len(th'[1].log) = Len(th[1].log) + 1

\* get_device_info notes the failure of the exchange, without data, and
\* goes on without the connection
ToleratesTransmitError ==
    /\ th'[1].outs = Append(th[1].outs, [xi |-> th[1].xi, ok |-> FALSE, val |-> <<>>])
    /\ th'[1].conn = 0
    /\ th'[1].info = th[1].info
    /\ IF th[1].xi = 2
       THEN th'[1].pc = "connect" /\ th'[1].xi = 3
       ELSE /\ th'[1].pc = "done"
            /\ th'[1].ret = [ok |-> TRUE, err |-> NoError, val |-> th[1].info]

TransmitFailureTolerated ==
    /\ th[1].pc = "done"
    /\ th[1].call.op = "get_device_info"
    /\ th[1].ret.ok
    /\ Len(th[1].outs) = 3
    /\ ~th[1].outs[2].ok
    /\ \E i \in 1..Len(th[1].log) :
          th[1].log[i] = Event("transmit", "", 2, encode_apdu(InitCmd), FALSE)

---------------------------------------------------------------------------
(* Properties of the opened-devices lock, checked under SpecDev            *)

\* thread t is inside the rescan of open_device (scan_devices is running:
\* HID enumeration and PC/SC connects)
Rescanning(t) == dm[t].pc = "scan"

\* C33: no thread holds the opened-devices lock while transport I/O is in
\* progress: open_device and close_device hold the lock only for the set
\* lookup and update, never across the device rescan, so a slow scan cannot
\* block a concurrent open or close.
C33_LockNotHeldAcrossScan ==
    /\ \A t \in Threads : Rescanning(t) => lockHolder # t
    /\ \A t \in Threads :
          (\E u \in Threads : Rescanning(u)) /\ dm[t].pc = "idle" =>
              /\ ENABLED (\E path \in DevicePaths : open_device_lock(t, path))
              /\ ENABLED (\E path \in DevicePaths : close_device(t, path))

\* what the code does: the thread that rescans is the one that holds the
\* lock, and the lock is held at no other time
LockHeldAcrossScan ==
    /\ \A t \in Threads : Rescanning(t) <=> lockHolder = t
    /\ \A t \in Threads :
          lockHolder \notin {0, t} =>
              /\ ~ENABLED (\E path \in DevicePaths : open_device_lock(t, path))
              /\ ~ENABLED (\E path \in DevicePaths : close_device(t, path))

\* thread 1 rescans with the lock held while thread 2 is about to close an
\* opened device
CloseBlockedByScan ==
    /\ Rescanning(1)
    /\ lockHolder = 1
    /\ dm[2].pc = "idle"
    /\ opened # {}

---------------------------------------------------------------------------
(* Properties of concurrent open_device and close_device, checked under   *)
(* SpecConcurrent                                                          *)

\* thread t finishes open_device or close_device in this step
Finishes(t) ==
    dm[t].pc # "done" /\ dm'[t].pc = "done" /\ dm'[t].op \in {"open", "close"}

\* what the call recorded in d returns, and leaves in the set, when it runs
\* alone on the set d.before
SequentialResult(d) ==
    IF d.op = "close"
    THEN IF d.path \in d.before
         THEN d.ret = DevOk /\ d.after = d.before \ {d.path}
         ELSE d.ret = DevErr(NotFound(d.path)) /\ d.after = d.before
    ELSE IF d.path \in d.before
         THEN d.ret = DevOk /\ d.after = d.before /\ d.scans = <<>>
         ELSE /\ Len(d.scans) = 1
              /\ IF PathListed(d.scans[1], d.path)
                 THEN d.ret = DevOk /\ d.after = d.before \cup {d.path}
                 ELSE d.ret = DevErr(NotFound(d.path)) /\ d.after = d.before

\* every open and close takes effect at one point: the set it read is the set
\* at the step it completes in, it leaves the set of its sequential result,
\* and the set changes at no other step
AtomicOnOpened ==
    /\ \A t \in Threads :
          Finishes(t) =>
              /\ dm'[t].before = opened
              /\ dm'[t].after = opened'
              /\ SequentialResult(dm'[t])
    /\ opened' # opened => \E t \in Threads : Finishes(t)

\* both threads have finished the same operation on the same path, thread b
\* directly after thread a
BothDid(op, a, b) ==
    /\ a # b
    /\ dm[a].pc = "done" /\ dm[b].pc = "done"
    /\ dm[a].op = op /\ dm[b].op = op
    /\ dm[a].path = dm[b].path
    /\ dm[a].after = dm[b].before

\* the rescan of the call recorded in d, if it made one, listed its path
ListedWhenScanned(d) ==
    \A i \in 1..Len(d.scans) : PathListed(d.scans[i], d.path)

\* two opens of one path that every rescan lists both return Ok, one of them
\* inserted the path, and the set holds it
TwoOpens ==
    \A a, b \in Threads :
        BothDid("open", a, b) /\ ListedWhenScanned(dm[a]) /\ ListedWhenScanned(dm[b]) =>
            /\ dm[a].ret = DevOk /\ dm[b].ret = DevOk
            /\ dm[b].after = dm[b].before
            /\ dm[a].path \in opened

\* of two closes of one opened path the first returns Ok, the second NotFound
TwoCloses ==
    \A a, b \in Threads :
        BothDid("close", a, b) /\ dm[a].path \in dm[a].before =>
            /\ dm[a].ret = DevOk
            /\ dm[b].ret = DevErr(NotFound(dm[b].path))
            /\ dm[a].path \notin opened

\* the thread that holds the lock can finish its rescan and release it;
\* with the lock free every thread can finish or start a call, and the
\* on-demand scan never waits for the lock
NoDeadlock ==
    /\ lockHolder # 0 => ENABLED open_device_scan(lockHolder)
    /\ \A t \in Threads :
          /\ dm[t].pc = "done" => ENABLED DmReturn(t)
          /\ dm[t].pc = "idle" => ENABLED scan_devices_call(t)
          /\ dm[t].pc = "idle" /\ lockHolder = 0 =>
                \A path \in DevicePaths :
                    /\ ENABLED open_device_lock(t, path)
                    /\ ENABLED close_device(t, path)
          /\ dm[t].pc \in {"idle", "scan", "done"}
          /\ dm[t].pc = "scan" <=> lockHolder = t

\* C34: open_device and close_device called from concurrent threads are
\* atomic with respect to the opened set: the results and the final set are
\* those of some sequential order of the calls (two concurrent opens of one
\* present path both return Ok and the set holds the path once; of two
\* concurrent closes of one opened path exactly one returns Ok and the other
\* NotFound), and no interleaving of open, close, on-demand scan and
\* background poll deadlocks.
C34_AtomicOpenClose ==
    /\ [](TwoOpens /\ TwoCloses /\ NoDeadlock)
    /\ [][AtomicOnOpened]_vars

\* thread 2 opened hid-1 and thread 1, which found it opened, returned Ok
\* without a rescan, while the monitor had polled
C34_Witness ==
    /\ BothDid("open", 2, 1)
    /\ dm[2].path = "hid-1"
    /\ dm[2].before = {} /\ dm[2].ret = DevOk
    /\ dm[1].scans = <<>> /\ dm[1].ret = DevOk
    /\ opened = {"hid-1"}
    /\ mon.polls > 0

\* both threads closed the opened hid-1: thread 1 got Ok, thread 2 NotFound
SecondCloseNotFound ==
    /\ BothDid("close", 1, 2)
    /\ dm[1].path = "hid-1" /\ dm[1].before = {"hid-1"}
    /\ dm[1].ret = DevOk
    /\ dm[2].ret = DevErr(NotFound("hid-1"))

\* thread 2 waits for the lock that thread 1 holds across its rescan
WaitsForLock ==
    /\ lockHolder = 1
    /\ dm[2].pc = "idle"
    /\ ~ENABLED close_device(2, "hid-1")

---------------------------------------------------------------------------
(* Properties of the hot-plug monitor over time, checked under LiveMonitor *)

PathsOf(S) == {d.path : d \in S}

\* the monitor publishes a notification in this step
Emits == mon' # mon /\ mon'.changed

\* the scan of this iteration lists exactly the connected devices
FaithfulScan == mon' # mon => ScanPaths(mon'.current) = PathsOf(plugged)

\* the first iteration of the loop
FirstPoll == mon.polls = 0 /\ mon'.polls = 1

\* the baseline is the list of the devices of S, and it has been published
Announced(S) ==
    /\ ScanPaths(mon.previous_devices) = PathsOf(S)
    /\ mon.polls > 0
    /\ mon.emitted # <<>> => mon.emitted[Len(mon.emitted)] = mon.previous_devices
    /\ mon.emitted = <<>> => S = {}

FailureAnnounced ==
    /\ plugged = {DeviceInfo("PicoFido", "hid-1")}
    /\ mon.polls = 2
    /\ mon.changed
    /\ mon.emitted = <<<<>>>>
    /\ mon.previous_devices = <<>>

---------------------------------------------------------------------------
(* Properties of the open_device command, checked under SpecCommand        *)

\* the type of the device that has this path
TypeOfPath(path) ==
    IF \E d \in AllDevices : d.path = path
    THEN (CHOOSE d \in AllDevices : d.path = path).device_type
    ELSE "none"

\* the open_device command of thread t returns Ok in this step
CommandOk(t) ==
    dm[t].pc = "done" /\ dm'[t].pc = "returned" /\ dm'[t].ret.ok

\* the module of the type of the device is bound to the path, the other
\* module keeps its path
BoundTo(path) ==
    /\ TypeOfPath(path) = "PicoFido" =>
          fido_device_path' = path /\ device_path' = device_path
    /\ TypeOfPath(path) = "PicoHsm" =>
          device_path' = path /\ fido_device_path' = fido_device_path

\* C36: whenever the open_device command returns Ok for a path, the module
\* matching that device's type (FIDO module for a FIDO token, HSM module for
\* an HSM token) has that path as its active device path afterwards, and the
\* active path of the other module is unchanged; this holds also when the
\* path was already open and when the device list changes between the
\* command's two scans.
C36_OpenBindsModule ==
    [][\A t \in Threads : CommandOk(t) => BoundTo(dm[t].path)]_vars

\* what the code does: the module is bound iff the command's own scan lists
\* the path; otherwise Ok is returned with both modules as they were
BindsWhenListed ==
    [][\A t \in Threads :
          CommandOk(t) =>
              LET devices == dm'[t].scans[Len(dm'[t].scans)]
              IN  IF PathListed(devices, dm[t].path)
                  THEN BoundTo(dm[t].path)
                  ELSE UNCHANGED <<device_path, fido_device_path>>]_vars

\* the command returned Ok for reader-A, which its first scan listed and its
\* second scan did not, and the HSM module is bound to no device
OkWithoutBinding ==
    \E t \in Threads :
        /\ dm[t].pc = "returned"
        /\ dm[t].ret = DevOk
        /\ dm[t].path = "reader-A"
        /\ Len(dm[t].scans) = 2
        /\ PathListed(dm[t].scans[1], "reader-A")
        /\ ~PathListed(dm[t].scans[2], "reader-A")
        /\ "reader-A" \in opened
        /\ device_path = ""

\* the command returned Ok for hid-1, which was open already and is no
\* longer connected, and the FIDO module is bound to no device
OkForOpenedAndGone ==
    \E t \in Threads :
        /\ dm[t].pc = "returned"
        /\ dm[t].ret = DevOk
        /\ dm[t].path = "hid-1"
        /\ "hid-1" \in dm[t].before
        /\ Len(dm[t].scans) = 1
        /\ plugged = {}
        /\ fido_device_path = ""

---------------------------------------------------------------------------
(* Properties of the reader an HSM operation talks to, checked under       *)
(* SpecRebind                                                              *)

\* the readers the operation in progress has tried to connect to
ReadersUsed ==
    {th[1].log[i].reader : i \in {j \in 1..Len(th[1].log) : th[1].log[j].e = "connect"}}

\* C37: all card connections made by one logical HSM operation target the
\* same device path, even if set_device_path is called by another thread
\* between the operation's exchanges (for instance between VERIFY and the
\* substantive instruction).
C37_OneReaderPerOperation == Cardinality(ReadersUsed) <= 1

\* what the code does: every connect goes to the reader that is the active
\* device path at the moment of that connect
ConnectsToActivePath ==
    [][\A i \in 1..Len(th'[1].log) :
          i > Len(th[1].log) /\ th'[1].log[i].e = "connect" =>
              th'[1].log[i].reader = device_path]_vars

\* list_keys returned Ok after VERIFY went to reader-A and ENUMERATE
\* OBJECTS to reader-B
VerifiedOnAnotherReader ==
    /\ th[1].pc = "done"
    /\ th[1].call.op = "list_keys"
    /\ th[1].ret.ok
    /\ \E i, j \in 1..Len(th[1].log) :
          /\ i < j
          /\ th[1].log[i].e = "connect" /\ th[1].log[i].ok
          /\ th[1].log[i].reader = "reader-A"
          /\ th[1].log[j].e = "connect" /\ th[1].log[j].ok
          /\ th[1].log[j].reader = "reader-B"

---------------------------------------------------------------------------
(* Properties of the HSM module before a device is selected, checked under *)
(* SpecHsm                                                                 *)

\* no device has been selected
Unbound == device_path = ""

\* the error connect_card returns when no device has been selected
NoDeviceSelected == Failure(CommunicationError("no device selected"))

\* while no device is selected the operation in progress has made no PC/SC
\* call, and an operation that has passed its local checks and has returned
\* has returned the error of connect_card
UnboundNoTransport ==
    Unbound =>
        /\ NoTransport(th[1])
        /\ (th[1].pc = "done" /\ th[1].call.op \notin SecureLockOps
              /\ Validate(th[1].call) = NoError) =>
               /\ th[1].ret = NoDeviceSelected
               /\ th[1].ret.err.kind = "CommunicationError"
               /\ th[1].stage = "connect"

\* the step of connect_card with no device selected ends the operation
UnboundConnectFails ==
    (Unbound /\ th[1].pc = "connect" /\ th'[1] # th[1]) =>
        /\ th'[1].pc = "done"
        /\ th'[1].ret = NoDeviceSelected
        /\ NoTransport(th'[1])

---------------------------------------------------------------------------
(* Properties of the status word transmit_raw leaves, checked under        *)
(* SpecTransmit                                                            *)

\* the last two bytes of a byte string of at least two bytes
LastTwo(bytes) == <<bytes[Len(bytes) - 1], bytes[Len(bytes)]>>

\* the two bytes at the end of the buffer are the status word of the reply
\* the token sent last
StatusOfLastReply(tx) ==
    LET last == tx.replies[Len(tx.replies)]
    IN  Len(last) >= 2 /\ LastTwo(tx.result) = LastTwo(last)

\* C39: the two bytes that an HSM operation interprets as the status word
\* after transmit_raw are always the status word of the token's last reply
\* and never bytes of response data, for every sequence of token replies
\* including a GET RESPONSE reply that is empty or one byte long; in
\* particular accumulated data bytes are never re-read as a 61 XX status
\* that triggers a further GET RESPONSE.
C39_StatusFromLastReply ==
    LET tx == th[1].tx
    IN  /\ (tx.state = "ok" /\ Len(tx.result) >= 2) => StatusOfLastReply(tx)
        /\ (tx.state = "loop" /\ ChainPending(tx.result)) => StatusOfLastReply(tx)

\* what the code does: the last two bytes of the buffer are the status word
\* of the last reply whenever that reply has at least two bytes
StatusOfCompleteReply ==
    LET tx == th[1].tx
        last == tx.replies[Len(tx.replies)]
    IN  (tx.state \in {"ok", "loop"} /\ Len(last) >= 2) =>
            LastTwo(tx.result) = LastTwo(last)

\* the token answered 05 61 05 and then the single byte 90: the buffer 05 90
\* was returned, whose first byte is response data
DataReadAsStatus ==
    LET tx == th[1].tx
    IN  /\ tx.state = "ok"
        /\ tx.replies = <<<<5, 97, 5>>, <<144>>>>
        /\ tx.result = <<5, 144>>

\* the token answered 61 61 61 and then the single byte 61: the data byte
\* 61 left in the buffer and that byte were taken for the status 61 61 and
\* a second GET RESPONSE was sent
DataReadAsChaining ==
    LET tx == th[1].tx
    IN  /\ Len(tx.replies) >= 2
        /\ tx.replies[1] = <<97, 97, 97>>
        /\ tx.replies[2] = <<97>>
        /\ Len(tx.gets) = 2
        /\ tx.gets[2] = <<0, 192, 0, 0, 97>>

---------------------------------------------------------------------------
(* Properties of set_option, checked under SpecOptions                     *)

\* thread t writes the options byte in this step
Writes(t) == th[t].pc = "set_option" /\ th'[t].pc = "done" /\ th'[t].ret.ok

\* set_option of thread t has returned Ok
OptionSet(t) == th[t].pc = "done" /\ th[t].call.op = "set_option" /\ th[t].ret.ok

\* the byte just written has the bit of the option equal to enabled and the
\* bit of the other option as the token held it
OnlyOptionChanged(t) ==
    LET bit == OptionBit(th[t].call.option)
    IN  /\ HasBit(token_options', bit) = th[t].call.enabled
        /\ HasBit(token_options', 3 - bit) = HasBit(token_options, 3 - bit)
        /\ token_options' \in 0..3

\* both threads have set different options: both settings are in effect
BothInEffect ==
    (OptionSet(1) /\ OptionSet(2) /\ th[1].call.option # th[2].call.option) =>
        \A t \in Threads :
            HasBit(token_options, OptionBit(th[t].call.option)) = th[t].call.enabled

\* C40: set_option(o, enabled) changes only option o: the options byte it
\* writes has the bit of o (PressToConfirm = 0x01, KeyUsageCounter = 0x02)
\* equal to enabled and the other option's bit equal to the value held by
\* the token, so that for every interleaving of two concurrent set_option
\* calls on different options both settings are in effect on the token once
\* both calls have returned (no lost update).
C40_NoLostUpdate ==
    /\ [](BothInEffect)
    /\ [][\A t \in Threads : Writes(t) => OnlyOptionChanged(t)]_vars

\* what the code does: the byte written has the bit of the option equal to
\* enabled and the other bit as the reply to this call's own read gave it
WritesWhatItRead ==
    [][\A t \in Threads :
          Writes(t) =>
              LET bit == OptionBit(th[t].call.option)
                  current == HsmOptions(th[t].outs[1].val)
                  other == IF bit = 1 THEN current.key_usage_counter
                           ELSE current.press_to_confirm
              IN  /\ HasBit(token_options', bit) = th[t].call.enabled
                  /\ HasBit(token_options', 3 - bit) = other
                  /\ token_options' \in 0..3]_vars

\* both threads read the options 00 00; thread 1 enabled PressToConfirm,
\* thread 2 enabled KeyUsageCounter, both returned Ok, and the token has
\* KeyUsageCounter alone
LostUpdate ==
    /\ OptionSet(1) /\ OptionSet(2)
    /\ th[1].call = OptionCall("set_option", "PressToConfirm", TRUE)
    /\ th[2].call = OptionCall("set_option", "KeyUsageCounter", TRUE)
    /\ th[1].outs[1].val = <<0, 0>>
    /\ th[2].outs[1].val = <<0, 0>>
    /\ token_options = 2

====
